---- MODULE Spec2Model ----
(***************************************************************************)
(* Model of the CDP contract (contracts/cdp/src/lib.rs): troves, per-asset *)
(* total debt, the stability pool with its reward-per-share accumulator    *)
(* and epochs, liquidation, redemption and the claimable-reward ledger.    *)
(*                                                                         *)
(* A call that panics is reverted by the host, so a handler is an operator *)
(* on a record of the contract's fields which carries a `panic` flag; an   *)
(* action commits the record only when the flag is still FALSE.            *)
(*                                                                         *)
(* TLC integers are 32 bit wide, so the 128-bit Balance is modelled by a   *)
(* narrower unsigned type (U128_MAX) and REWARD_SCALE is scaled down with  *)
(* it; every checked_* operation keeps its overflow test against U128_MAX. *)
(* Every payable call is made with the one yoctoNEAR it asserts.           *)
(***************************************************************************)
EXTENDS Integers, Sequences, FiniteSets, TLC

\* ---------------------------------------------------------------- bounds
MaxCustody == 3        \* collateral is accepted while the contract holds less
MaxAmount == 2         \* amounts passed to the calls range over 1..MaxAmount
MaxOwners == 2         \* length of the owners list handed to liquidate

\* ------------------------------------------------------------- constants
BPS_DENOMINATOR == 10000
REWARD_SCALE == 1000
U128_MAX == 1073741823

OwnerId == "owner"
OracleId == "oracle"
CurrentAccountId == "cdp"
Users == {"alice", "bob"}
Accounts == Users \cup {OwnerId}
Assets == {"usdc"}

Amounts == 1..MaxAmount

\* Option<U128>: None is a negative number, Some(v) is v
None == 0 - 1

\* configs the owner registers
ConfigChoices ==
    { [min_collateral_ratio_bps |-> 1100, recovery_collateral_ratio_bps |-> 1500,
       debt_ceiling |-> 4, liquidation_penalty_bps |-> 5000],
      [min_collateral_ratio_bps |-> 20000, recovery_collateral_ratio_bps |-> 20000,
       debt_ceiling |-> 2, liquidation_penalty_bps |-> 5000] }

\* prices the oracle submits: 1.0 and 0.1
PriceChoices == { [price |-> 1, decimals |-> 0], [price |-> 1, decimals |-> 1] }

VARIABLES
    configs, troves, total_debt, price_feeds, stability_pool_deposits,
    collateral_rewards, reward_per_share, stability_pool_total_shares,
    stability_pool_total_nusd, stability_pool_epoch, nusd,
    custody

vars == << configs, troves, total_debt, price_feeds, stability_pool_deposits,
           collateral_rewards, reward_per_share, stability_pool_total_shares,
           stability_pool_total_nusd, stability_pool_epoch, nusd,
           custody >>

\* ------------------------------------------------------------ map helpers
EmptyMap == [x \in {} |-> 0]

MapGet(m, k, default) == IF k \in DOMAIN m THEN m[k] ELSE default

MapInsert(m, k, v) == [x \in (DOMAIN m) \cup {k} |-> IF x = k THEN v ELSE m[x]]

MapRemove(m, k) == [x \in (DOMAIN m) \ {k} |-> m[x]]

RECURSIVE SumOver(_, _)
SumOver(f, keys) ==
    IF keys = {} THEN 0
    ELSE LET k == CHOOSE x \in keys : TRUE
         IN f[k] + SumOver(f, keys \ {k})

\* ------------------------------------------------------ checked arithmetic
MulOverflow(a, b) == b > 0 /\ a > U128_MAX \div b

AddOverflow(a, b) == a > U128_MAX - b

Panic(s) == [s EXCEPT !.panic = TRUE]

\* `let x = v; F(x)`: v is computed once and F runs on its value
Bind(v, F(_)) == CHOOSE out \in { F(x) : x \in {v} } : TRUE

\* the contract's fields as one record, as a handler sees them
Self ==
    [ configs |-> configs, troves |-> troves, total_debt |-> total_debt,
      price_feeds |-> price_feeds,
      stability_pool_deposits |-> stability_pool_deposits,
      collateral_rewards |-> collateral_rewards,
      reward_per_share |-> reward_per_share,
      stability_pool_total_shares |-> stability_pool_total_shares,
      stability_pool_total_nusd |-> stability_pool_total_nusd,
      stability_pool_epoch |-> stability_pool_epoch,
      nusd |-> nusd,
      transfers |-> << >>,
      ret |-> 0,
      panic |-> FALSE ]

\* ------------------------------------------------------- fungible ledger
ft_internal_register_account(s, account) ==
    IF account \in DOMAIN s.nusd.accounts THEN Panic(s)
    ELSE [s EXCEPT !.nusd.accounts = MapInsert(@, account, 0)]

\* internal_deposit that credits the account and keeps the supply
ft_internal_deposit_keeps_supply(s, account, amount) ==
    IF s.panic THEN s
    ELSE IF account \notin DOMAIN s.nusd.accounts THEN Panic(s)
    ELSE IF AddOverflow(s.nusd.accounts[account], amount) THEN Panic(s)
    ELSE [s EXCEPT !.nusd.accounts[account] = @ + amount]

ft_internal_deposit(s, account, amount) ==
    IF s.panic THEN s
    ELSE IF account \notin DOMAIN s.nusd.accounts THEN Panic(s)
    ELSE IF AddOverflow(s.nusd.accounts[account], amount)
            \/ AddOverflow(s.nusd.total_supply, amount) THEN Panic(s)
    ELSE [s EXCEPT !.nusd.accounts[account] = @ + amount,
                   !.nusd.total_supply = @ + amount]

\* internal_withdraw that debits the account and keeps the supply
ft_internal_withdraw_keeps_supply(s, account, amount) ==
    IF s.panic THEN s
    ELSE IF account \notin DOMAIN s.nusd.accounts THEN Panic(s)
    ELSE IF s.nusd.accounts[account] < amount THEN Panic(s)
    ELSE [s EXCEPT !.nusd.accounts[account] = @ - amount]

ft_internal_withdraw(s, account, amount) ==
    IF s.panic THEN s
    ELSE IF account \notin DOMAIN s.nusd.accounts THEN Panic(s)
    ELSE IF s.nusd.accounts[account] < amount THEN Panic(s)
    ELSE [s EXCEPT !.nusd.accounts[account] = @ - amount,
                   !.nusd.total_supply = @ - amount]

\* ---------------------------------------------------------- pure helpers
RECURSIVE decimals_factor(_)
decimals_factor(decimals) ==
    IF decimals = 0 THEN 1 ELSE 10 * decimals_factor(decimals - 1)

trove_key(owner_id, collateral_id) == << owner_id, collateral_id >>

CollateralRewardKey(account_id, collateral_id) == << account_id, collateral_id >>

StabilityDeposit_new(epoch) == [shares |-> 0, reward_debt |-> EmptyMap, epoch |-> epoch]

\* StabilityDeposit::amount that rounds the value of the shares up
StabilityDeposit_amount_rounds_up(deposit, total_nusd, total_shares) ==
    IF deposit.shares = 0 \/ total_shares = 0 \/ total_nusd = 0 THEN 0
    ELSE (deposit.shares * total_nusd + total_shares - 1) \div total_shares

StabilityDeposit_amount(deposit, total_nusd, total_shares) ==
    IF deposit.shares = 0 \/ total_shares = 0 \/ total_nusd = 0 THEN 0
    ELSE (deposit.shares * total_nusd) \div total_shares

\* collateral_ratio panics iff one of its two products overflows
collateral_ratio_panics(collateral, debt, price) ==
    /\ debt # 0
    /\ \/ MulOverflow(collateral, price.price)
       \/ MulOverflow((collateral * price.price) \div decimals_factor(price.decimals),
                      BPS_DENOMINATOR)

\* collateral_ratio that rounds the collateral's value up
collateral_ratio_rounds_value_up(collateral, debt, price) ==
    IF debt = 0 THEN U128_MAX
    ELSE LET divisor == decimals_factor(price.decimals)
             value == (collateral * price.price + divisor - 1) \div divisor
         IN (value * BPS_DENOMINATOR) \div debt

\* collateral_ratio in percent instead of basis points
collateral_ratio_in_percent(collateral, debt, price) ==
    IF debt = 0 THEN U128_MAX
    ELSE LET divisor == decimals_factor(price.decimals)
             value == (collateral * price.price) \div divisor
         IN (value * 100) \div debt

collateral_ratio(collateral, debt, price) ==
    IF debt = 0 THEN U128_MAX
    ELSE LET divisor == decimals_factor(price.decimals)
             value == (collateral * price.price) \div divisor
         IN (value * BPS_DENOMINATOR) \div debt

\* ------------------------------------------------------ internal methods
expect_config_panics(s, collateral_id) == collateral_id \notin DOMAIN s.configs

expect_price_panics(s, collateral_id) == collateral_id \notin DOMAIN s.price_feeds

expect_trove_panics(s, owner_id, collateral_id) ==
    trove_key(owner_id, collateral_id) \notin DOMAIN s.troves

save_trove(s, owner_id, collateral_id, trove) ==
    [s EXCEPT !.troves = MapInsert(@, trove_key(owner_id, collateral_id), trove)]

ensure_debt_ceiling(s, collateral_id, new_total) ==
    IF s.panic THEN s
    ELSE IF expect_config_panics(s, collateral_id) THEN Panic(s)
    ELSE IF ~(new_total <= s.configs[collateral_id].debt_ceiling) THEN Panic(s)
    ELSE s

\* delta is signed: an increase checks the ceiling, a decrease the underflow
add_total_debt(s, collateral_id, delta) ==
    IF s.panic THEN s
    ELSE
    LET total == MapGet(s.total_debt, collateral_id, 0)
        store(st, t) ==
            IF t = 0 THEN [st EXCEPT !.total_debt = MapRemove(@, collateral_id)]
            ELSE [st EXCEPT !.total_debt = MapInsert(@, collateral_id, t)]
    IN IF delta >= 0
       THEN IF AddOverflow(total, delta) THEN Panic(s)
            ELSE Bind(ensure_debt_ceiling(s, collateral_id, total + delta),
                      LAMBDA s1 : IF s1.panic THEN s1 ELSE store(s1, total + delta))
       ELSE LET reduction == -delta
            IN IF ~(total >= reduction) THEN Panic(s)
               ELSE store(s, total - reduction)

\* enqueue_collateral_reward that stores the amount over the balance instead
\* of adding to it
enqueue_collateral_reward_overwrites(s, account_id, collateral_id, amount) ==
    IF s.panic THEN s
    ELSE IF amount = 0 THEN s
    ELSE [s EXCEPT !.collateral_rewards =
                       MapInsert(@, CollateralRewardKey(account_id, collateral_id), amount)]

\* enqueue_collateral_reward that also opens a deposit record for the account
enqueue_collateral_reward_opens_deposit(s, account_id, collateral_id, amount) ==
    IF s.panic THEN s
    ELSE IF amount = 0 THEN s
    ELSE LET key == CollateralRewardKey(account_id, collateral_id)
             current == MapGet(s.collateral_rewards, key, 0)
         IN IF AddOverflow(current, amount) THEN Panic(s)
            ELSE [s EXCEPT !.collateral_rewards = MapInsert(@, key, current + amount),
                           !.stability_pool_deposits =
                               MapInsert(@, account_id,
                                         StabilityDeposit_new(s.stability_pool_epoch))]

enqueue_collateral_reward(s, account_id, collateral_id, amount) ==
    IF s.panic THEN s
    ELSE IF amount = 0 THEN s
    ELSE LET key == CollateralRewardKey(account_id, collateral_id)
             current == MapGet(s.collateral_rewards, key, 0)
         IN IF AddOverflow(current, amount) THEN Panic(s)
            ELSE [s EXCEPT !.collateral_rewards = MapInsert(@, key, current + amount)]

send_collateral(s, receiver_id, token_id, amount) ==
    IF s.panic THEN s
    ELSE IF ~(amount > 0) THEN Panic(s)
    ELSE [s EXCEPT !.transfers =
              Append(@, [token |-> token_id, to |-> receiver_id, amount |-> amount])]

shares_from_amount(s, amount) ==
    IF s.stability_pool_total_shares = 0 \/ s.stability_pool_total_nusd = 0
    THEN amount
    ELSE (amount * s.stability_pool_total_shares) \div s.stability_pool_total_nusd

shares_from_amount_panics(s, amount) ==
    /\ ~(s.stability_pool_total_shares = 0 \/ s.stability_pool_total_nusd = 0)
    /\ MulOverflow(amount, s.stability_pool_total_shares)

\* shares_for_withdraw that takes one share per unit withdrawn
shares_for_withdraw_at_par(s, amount) == amount

shares_for_withdraw(s, amount) == shares_from_amount(s, amount)

reward_per_share_keys(s) == DOMAIN s.reward_per_share

\* one iteration of the reward loops: the pending reward of `shares` for one
\* asset, shares * (global - paid) / REWARD_SCALE, credited when positive
credit_pending(s, account_id, deposit, collateral_id) ==
    IF s.panic THEN s
    ELSE
    LET global == MapGet(s.reward_per_share, collateral_id, 0)
        paid == MapGet(deposit.reward_debt, collateral_id, 0)
    IN IF global > paid
       THEN IF MulOverflow(deposit.shares, global - paid) THEN Panic(s)
            ELSE LET pending == (deposit.shares * (global - paid)) \div REWARD_SCALE
                 IN IF pending > 0
                    THEN enqueue_collateral_reward(s, account_id, collateral_id, pending)
                    ELSE s
       ELSE s

RECURSIVE credit_pending_all(_, _, _, _)
credit_pending_all(s, account_id, deposit, keys) ==
    IF keys = {} THEN s
    ELSE LET k == CHOOSE x \in keys : TRUE
         IN Bind(credit_pending(s, account_id, deposit, k),
                 LAMBDA s1 : credit_pending_all(s1, account_id, deposit, keys \ {k}))

\* sync_reward_debt_snapshot that leaves the record's snapshot as it was
sync_reward_debt_snapshot_skipped(s, deposit) == deposit

sync_reward_debt_snapshot(s, deposit) ==
    [deposit EXCEPT !.reward_debt =
        [c \in (DOMAIN deposit.reward_debt) \cup reward_per_share_keys(s) |->
            IF c \in reward_per_share_keys(s)
            THEN MapGet(s.reward_per_share, c, 0)
            ELSE deposit.reward_debt[c]]]

\* ensure_deposit_epoch that moves a record to the current epoch without
\* crediting what it earned in its own
ensure_deposit_epoch_forfeits_pending(s, account_id, deposit) ==
    IF s.panic \/ deposit.epoch = s.stability_pool_epoch
    THEN [s |-> s, deposit |-> deposit]
    ELSE [s |-> s,
          deposit |-> [shares |-> 0, reward_debt |-> EmptyMap,
                       epoch |-> s.stability_pool_epoch]]

\* returns the contract record and the (local) deposit record
\* ensure_deposit_epoch that carries the shares of an earlier epoch over
ensure_deposit_epoch_keeps_shares(s, account_id, deposit) ==
    IF s.panic \/ deposit.epoch = s.stability_pool_epoch
    THEN [s |-> s, deposit |-> deposit]
    ELSE LET s1 == IF deposit.shares > 0
                   THEN credit_pending_all(s, account_id, deposit, reward_per_share_keys(s))
                   ELSE s
         IN [s |-> s1,
             deposit |-> [shares |-> deposit.shares, reward_debt |-> EmptyMap,
                          epoch |-> s.stability_pool_epoch]]

ensure_deposit_epoch(s, account_id, deposit) ==
    IF s.panic \/ deposit.epoch = s.stability_pool_epoch
    THEN [s |-> s, deposit |-> deposit]
    ELSE LET s1 == IF deposit.shares > 0
                   THEN credit_pending_all(s, account_id, deposit, reward_per_share_keys(s))
                   ELSE s
         IN [s |-> s1,
             deposit |-> [shares |-> 0, reward_debt |-> EmptyMap,
                          epoch |-> s.stability_pool_epoch]]

\* settle_stability_rewards that credits the pending rewards and stores the
\* record with the snapshot it had
settle_stability_rewards_keeps_snapshot(s, account_id) ==
    IF s.panic THEN s
    ELSE
    LET deposit0 == MapGet(s.stability_pool_deposits, account_id,
                           StabilityDeposit_new(s.stability_pool_epoch))
    IN Bind(ensure_deposit_epoch(s, account_id, deposit0), LAMBDA r :
       IF r.s.panic THEN r.s
       ELSE IF r.deposit.shares = 0 \/ r.s.stability_pool_total_shares = 0
       THEN [r.s EXCEPT !.stability_pool_deposits = MapInsert(@, account_id, r.deposit)]
       ELSE LET keys == reward_per_share_keys(r.s)
                deposit2 == r.deposit
            IN Bind(credit_pending_all(r.s, account_id, r.deposit, keys), LAMBDA s2 :
               IF s2.panic THEN s2
               ELSE IF keys # {}
               THEN [s2 EXCEPT !.stability_pool_deposits =
                                    MapInsert(@, account_id, deposit2)]
               ELSE s2))

settle_stability_rewards(s, account_id) ==
    IF s.panic THEN s
    ELSE
    LET deposit0 == MapGet(s.stability_pool_deposits, account_id,
                           StabilityDeposit_new(s.stability_pool_epoch))
    IN Bind(ensure_deposit_epoch(s, account_id, deposit0), LAMBDA r :
       IF r.s.panic THEN r.s
       ELSE IF r.deposit.shares = 0 \/ r.s.stability_pool_total_shares = 0
       THEN [r.s EXCEPT !.stability_pool_deposits = MapInsert(@, account_id, r.deposit)]
       ELSE LET keys == reward_per_share_keys(r.s)
                deposit2 == sync_reward_debt_snapshot(r.s, r.deposit)
            IN Bind(credit_pending_all(r.s, account_id, r.deposit, keys), LAMBDA s2 :
               IF s2.panic THEN s2
               ELSE IF keys # {}
               THEN [s2 EXCEPT !.stability_pool_deposits =
                                    MapInsert(@, account_id, deposit2)]
               ELSE s2))

\* accrue_reward_per_share that takes the no-shares branch whatever the shares
accrue_reward_per_share_to_owner(s, collateral_id, reward_amount) ==
    IF s.panic THEN s
    ELSE IF reward_amount = 0 THEN s
    ELSE enqueue_collateral_reward(s, OwnerId, collateral_id, reward_amount)

accrue_reward_per_share(s, collateral_id, reward_amount) ==
    IF s.panic THEN s
    ELSE IF reward_amount = 0 THEN s
    ELSE IF s.stability_pool_total_shares = 0
    THEN enqueue_collateral_reward(s, OwnerId, collateral_id, reward_amount)
    ELSE LET accrued == MapGet(s.reward_per_share, collateral_id, 0)
         IN IF MulOverflow(reward_amount, REWARD_SCALE) THEN Panic(s)
            ELSE LET inc == (reward_amount * REWARD_SCALE) \div s.stability_pool_total_shares
                 IN IF AddOverflow(accrued, inc) THEN Panic(s)
                    ELSE [s EXCEPT !.reward_per_share =
                                       MapInsert(@, collateral_id, accrued + inc)]

\* burn_from_stability_pool that lowers the pool balance without burning the
\* stablecoin
burn_from_stability_pool_keeps_supply(s, amount) ==
    IF s.panic THEN s
    ELSE IF ~(amount > 0) THEN Panic(s)
    ELSE IF ~(s.stability_pool_total_nusd >= amount) THEN Panic(s)
    ELSE IF s.stability_pool_total_nusd - amount = 0
    THEN [s EXCEPT !.stability_pool_total_nusd = 0,
                   !.stability_pool_total_shares = 0,
                   !.stability_pool_epoch = @ + 1]
    ELSE [s EXCEPT !.stability_pool_total_nusd = @ - amount]

\* burn_from_stability_pool that resets the shares of a drained pool and keeps
\* the epoch
burn_from_stability_pool_keeps_epoch(s, amount) ==
    IF s.panic THEN s
    ELSE IF ~(amount > 0) THEN Panic(s)
    ELSE IF ~(s.stability_pool_total_nusd >= amount) THEN Panic(s)
    ELSE Bind(ft_internal_withdraw(
                  [s EXCEPT !.stability_pool_total_nusd = @ - amount],
                  CurrentAccountId, amount), LAMBDA s2 :
              IF s2.panic THEN s2
              ELSE IF s2.stability_pool_total_nusd = 0
              THEN [s2 EXCEPT !.stability_pool_total_shares = 0]
              ELSE s2)

\* burn_from_stability_pool that cancels as many shares as it burns nUSD
burn_from_stability_pool_burns_shares(s, amount) ==
    IF s.panic THEN s
    ELSE IF ~(amount > 0) THEN Panic(s)
    ELSE IF ~(s.stability_pool_total_nusd >= amount) THEN Panic(s)
    ELSE Bind(ft_internal_withdraw(
                  [s EXCEPT !.stability_pool_total_nusd = @ - amount],
                  CurrentAccountId, amount), LAMBDA s2 :
              IF s2.panic THEN s2
              ELSE IF s2.stability_pool_total_nusd = 0
              THEN [s2 EXCEPT !.stability_pool_total_shares = 0,
                              !.stability_pool_epoch = @ + 1]
              ELSE [s2 EXCEPT !.stability_pool_total_shares =
                                  IF @ > amount THEN @ - amount ELSE @])

\* burn_from_stability_pool that leaves the shares of a drained pool standing
burn_from_stability_pool_keeps_drained_shares(s, amount) ==
    IF s.panic THEN s
    ELSE IF ~(amount > 0) THEN Panic(s)
    ELSE IF ~(s.stability_pool_total_nusd >= amount) THEN Panic(s)
    ELSE Bind(ft_internal_withdraw(
                  [s EXCEPT !.stability_pool_total_nusd = @ - amount],
                  CurrentAccountId, amount), LAMBDA s2 :
              IF s2.panic THEN s2
              ELSE IF s2.stability_pool_total_nusd = 0
              THEN [s2 EXCEPT !.stability_pool_epoch = @ + 1]
              ELSE s2)

burn_from_stability_pool(s, amount) ==
    IF s.panic THEN s
    ELSE IF ~(amount > 0) THEN Panic(s)
    ELSE IF ~(s.stability_pool_total_nusd >= amount) THEN Panic(s)
    ELSE Bind(ft_internal_withdraw(
                  [s EXCEPT !.stability_pool_total_nusd = @ - amount],
                  CurrentAccountId, amount), LAMBDA s2 :
              IF s2.panic THEN s2
              ELSE IF s2.stability_pool_total_nusd = 0
              THEN [s2 EXCEPT !.stability_pool_total_shares = 0,
                              !.stability_pool_epoch = @ + 1]
              ELSE s2)

\* claim_collateral that stores the balance it has emptied
claim_collateral_keeps_entry(s, account_id, collateral_id, amount) ==
    IF s.panic THEN s
    ELSE
    LET key == CollateralRewardKey(account_id, collateral_id)
        claimable == MapGet(s.collateral_rewards, key, 0)
        to_claim == IF amount = None THEN claimable ELSE amount
    IN IF ~(claimable > 0) THEN Panic(s)
       ELSE IF ~(to_claim > 0) THEN Panic(s)
       ELSE IF ~(to_claim <= claimable) THEN Panic(s)
       ELSE Bind([s EXCEPT !.collateral_rewards =
                              MapInsert(@, key, claimable - to_claim)],
                 LAMBDA s1 : send_collateral(s1, account_id, collateral_id, to_claim))

claim_collateral(s, account_id, collateral_id, amount) ==
    IF s.panic THEN s
    ELSE
    LET key == CollateralRewardKey(account_id, collateral_id)
        claimable == MapGet(s.collateral_rewards, key, 0)
        to_claim == IF amount = None THEN claimable ELSE amount
    IN IF ~(claimable > 0) THEN Panic(s)
       ELSE IF ~(to_claim > 0) THEN Panic(s)
       ELSE IF ~(to_claim <= claimable) THEN Panic(s)
       ELSE Bind(IF claimable - to_claim = 0
                 THEN [s EXCEPT !.collateral_rewards = MapRemove(@, key)]
                 ELSE [s EXCEPT !.collateral_rewards =
                                    MapInsert(@, key, claimable - to_claim)],
                 LAMBDA s1 : send_collateral(s1, account_id, collateral_id, to_claim))

\* internal_repay that forgets to lower the asset's total debt
internal_repay_keeps_total(s, owner_id, collateral_id, amount) ==
    IF s.panic THEN s
    ELSE IF expect_trove_panics(s, owner_id, collateral_id) THEN Panic(s)
    ELSE LET trove == s.troves[trove_key(owner_id, collateral_id)]
         IN IF ~(amount <= trove.debt_amount) THEN Panic(s)
            ELSE save_trove(s, owner_id, collateral_id,
                            [trove EXCEPT !.debt_amount = @ - amount])

internal_repay(s, owner_id, collateral_id, amount) ==
    IF s.panic THEN s
    ELSE IF expect_trove_panics(s, owner_id, collateral_id) THEN Panic(s)
    ELSE LET trove == s.troves[trove_key(owner_id, collateral_id)]
         IN IF ~(amount <= trove.debt_amount) THEN Panic(s)
            ELSE Bind(save_trove(s, owner_id, collateral_id,
                                 [trove EXCEPT !.debt_amount = @ - amount]),
                      LAMBDA s1 : add_total_debt(s1, collateral_id, -amount))

internal_deposit_collateral(s, owner_id, collateral_id, amount) ==
    IF s.panic THEN s
    ELSE IF ~(amount > 0) THEN Panic(s)
    ELSE IF expect_config_panics(s, collateral_id) THEN Panic(s)
    ELSE LET key == trove_key(owner_id, collateral_id)
             trove == MapGet(s.troves, key, [collateral_amount |-> 0, debt_amount |-> 0])
         IN IF AddOverflow(trove.collateral_amount, amount) THEN Panic(s)
            ELSE [s EXCEPT !.troves =
                     MapInsert(@, key, [trove EXCEPT !.collateral_amount = @ + amount])]

\* ------------------------------------------------------- public methods
\* register_collateral without the check of the recovery ratio
register_collateral_unchecked_recovery(s, caller, token_id, config) ==
    IF ~(caller = OwnerId) THEN Panic(s)
    ELSE IF ~(config.min_collateral_ratio_bps >= 1100) THEN Panic(s)
    ELSE [s EXCEPT !.configs = MapInsert(@, token_id, config)]

register_collateral(s, caller, token_id, config) ==
    IF ~(caller = OwnerId) THEN Panic(s)
    ELSE IF ~(config.min_collateral_ratio_bps >= 1100) THEN Panic(s)
    ELSE IF ~(config.recovery_collateral_ratio_bps >= config.min_collateral_ratio_bps)
    THEN Panic(s)
    ELSE [s EXCEPT !.configs = MapInsert(@, token_id, config)]

submit_price(s, caller, collateral_id, price, decimals) ==
    IF ~(caller = OracleId) THEN Panic(s)
    ELSE IF ~(decimals <= 18) THEN Panic(s)
    ELSE IF ~(price > 0) THEN Panic(s)
    ELSE [s EXCEPT !.price_feeds =
             MapInsert(@, collateral_id, [price |-> price, decimals |-> decimals])]

borrow(s, caller, collateral_id, amount) ==
    IF ~(amount > 0) THEN Panic(s)
    ELSE IF expect_trove_panics(s, caller, collateral_id) THEN Panic(s)
    ELSE IF expect_config_panics(s, collateral_id) THEN Panic(s)
    ELSE IF expect_price_panics(s, collateral_id) THEN Panic(s)
    ELSE
    LET trove == s.troves[trove_key(caller, collateral_id)]
        config == s.configs[collateral_id]
        price == s.price_feeds[collateral_id]
        new_debt == trove.debt_amount + amount
    IN IF AddOverflow(trove.debt_amount, amount) THEN Panic(s)
       ELSE Bind(ensure_debt_ceiling(s, collateral_id, new_debt), LAMBDA s1 :
            IF s1.panic THEN s1
            ELSE IF collateral_ratio_panics(trove.collateral_amount, new_debt, price)
            THEN Panic(s1)
            ELSE IF ~(collateral_ratio(trove.collateral_amount, new_debt, price)
                        >= config.min_collateral_ratio_bps)
            THEN Panic(s1)
            ELSE Bind(save_trove(s1, caller, collateral_id,
                                 [trove EXCEPT !.debt_amount = new_debt]), LAMBDA s2 :
                 Bind(add_total_debt(s2, collateral_id, amount), LAMBDA s3 :
                 ft_internal_deposit(s3, caller, amount))))

repay(s, caller, collateral_id, amount) ==
    IF ~(amount > 0) THEN Panic(s)
    ELSE Bind(ft_internal_withdraw(s, caller, amount), LAMBDA s1 :
              internal_repay(s1, caller, collateral_id, amount))

\* withdraw_collateral with the ratio recomputed from the collateral before
\* the withdrawal instead of the reduced one
withdraw_collateral_stale_ratio(s, caller, collateral_id, amount, receiver) ==
    IF expect_trove_panics(s, caller, collateral_id) THEN Panic(s)
    ELSE
    LET trove0 == s.troves[trove_key(caller, collateral_id)]
    IN IF ~(trove0.collateral_amount >= amount) THEN Panic(s)
       ELSE
       LET trove == [trove0 EXCEPT !.collateral_amount = @ - amount]
           bad == IF trove.debt_amount > 0
                  THEN \/ expect_price_panics(s, collateral_id)
                       \/ expect_config_panics(s, collateral_id)
                       \/ ~(collateral_ratio(trove0.collateral_amount, trove.debt_amount,
                                             s.price_feeds[collateral_id])
                              >= s.configs[collateral_id].min_collateral_ratio_bps)
                  ELSE FALSE
       IN IF bad THEN Panic(s)
          ELSE send_collateral(save_trove(s, caller, collateral_id, trove),
                               IF receiver = "" THEN caller ELSE receiver,
                               collateral_id, amount)

withdraw_collateral(s, caller, collateral_id, amount, receiver) ==
    IF expect_trove_panics(s, caller, collateral_id) THEN Panic(s)
    ELSE
    LET trove0 == s.troves[trove_key(caller, collateral_id)]
    IN IF ~(trove0.collateral_amount >= amount) THEN Panic(s)
       ELSE
       LET trove == [trove0 EXCEPT !.collateral_amount = @ - amount]
           bad == IF trove.debt_amount > 0
                  THEN \/ expect_price_panics(s, collateral_id)
                       \/ expect_config_panics(s, collateral_id)
                       \/ collateral_ratio_panics(trove.collateral_amount, trove.debt_amount,
                                                  s.price_feeds[collateral_id])
                       \/ ~(collateral_ratio(trove.collateral_amount, trove.debt_amount,
                                             s.price_feeds[collateral_id])
                              >= s.configs[collateral_id].min_collateral_ratio_bps)
                  ELSE FALSE
       IN IF bad THEN Panic(s)
          ELSE send_collateral(save_trove(s, caller, collateral_id, trove),
                               IF receiver = "" THEN caller ELSE receiver,
                               collateral_id, amount)

\* close_trove without the require on the collateral
close_trove_accepts_empty(s, caller, collateral_id) ==
    LET key == trove_key(caller, collateral_id)
    IN IF key \notin DOMAIN s.troves THEN Panic(s)
       ELSE LET trove == s.troves[key]
            IN IF ~(trove.debt_amount = 0) THEN Panic(s)
               ELSE [s EXCEPT !.troves = MapRemove(@, key)]

close_trove(s, caller, collateral_id) ==
    LET key == trove_key(caller, collateral_id)
    IN IF key \notin DOMAIN s.troves THEN Panic(s)
       ELSE LET trove == s.troves[key]
            IN IF ~(trove.debt_amount = 0) THEN Panic(s)
               ELSE LET s1 == [s EXCEPT !.troves = MapRemove(@, key)]
                    IN IF trove.collateral_amount = 0 THEN Panic(s1)
                       ELSE send_collateral(s1, caller, collateral_id,
                                            trove.collateral_amount)

\* deposit_to_stability_pool that prices the shares after it has added the
\* amount to the pool
deposit_to_stability_pool_prices_after(s, caller, amount) ==
    IF ~(amount > 0) THEN Panic(s)
    ELSE
    Bind(settle_stability_rewards(s, caller), LAMBDA s1 :
    IF s1.panic THEN s1
    ELSE
    Bind(ensure_deposit_epoch(
             s1, caller,
             MapGet(s1.stability_pool_deposits, caller,
                    StabilityDeposit_new(s1.stability_pool_epoch))), LAMBDA r :
    LET shares == shares_from_amount(
                      [r.s EXCEPT !.stability_pool_total_nusd = @ + amount], amount)
    IN IF r.s.panic \/ shares_from_amount_panics(r.s, amount) THEN Panic(r.s)
       ELSE IF ~(shares > 0) THEN Panic(r.s)
       ELSE IF AddOverflow(r.deposit.shares, shares)
               \/ AddOverflow(r.s.stability_pool_total_shares, shares)
               \/ AddOverflow(r.s.stability_pool_total_nusd, amount)
       THEN Panic(r.s)
       ELSE
       Bind([r.s EXCEPT !.stability_pool_total_shares = @ + shares,
                        !.stability_pool_total_nusd = @ + amount], LAMBDA s3 :
       Bind(sync_reward_debt_snapshot(s3, [r.deposit EXCEPT !.shares = @ + shares]),
                                                                  LAMBDA deposit :
       Bind([s3 EXCEPT !.stability_pool_deposits = MapInsert(@, caller, deposit)],
                                                                  LAMBDA s4 :
       Bind(ft_internal_withdraw(s4, caller, amount), LAMBDA s5 :
       ft_internal_deposit(s5, CurrentAccountId, amount)))))))

deposit_to_stability_pool(s, caller, amount) ==
    IF ~(amount > 0) THEN Panic(s)
    ELSE
    Bind(settle_stability_rewards(s, caller), LAMBDA s1 :
    IF s1.panic THEN s1
    ELSE
    Bind(ensure_deposit_epoch(
             s1, caller,
             MapGet(s1.stability_pool_deposits, caller,
                    StabilityDeposit_new(s1.stability_pool_epoch))), LAMBDA r :
    LET shares == shares_from_amount(r.s, amount)
    IN IF r.s.panic \/ shares_from_amount_panics(r.s, amount) THEN Panic(r.s)
       ELSE IF ~(shares > 0) THEN Panic(r.s)
       ELSE IF AddOverflow(r.deposit.shares, shares)
               \/ AddOverflow(r.s.stability_pool_total_shares, shares)
               \/ AddOverflow(r.s.stability_pool_total_nusd, amount)
       THEN Panic(r.s)
       ELSE
       Bind([r.s EXCEPT !.stability_pool_total_shares = @ + shares,
                        !.stability_pool_total_nusd = @ + amount], LAMBDA s3 :
       Bind(sync_reward_debt_snapshot(s3, [r.deposit EXCEPT !.shares = @ + shares]),
                                                                  LAMBDA deposit :
       Bind([s3 EXCEPT !.stability_pool_deposits = MapInsert(@, caller, deposit)],
                                                                  LAMBDA s4 :
       Bind(ft_internal_withdraw(s4, caller, amount), LAMBDA s5 :
       ft_internal_deposit(s5, CurrentAccountId, amount)))))))

withdraw_from_stability_pool(s, caller, amount) ==
    Bind(settle_stability_rewards(s, caller), LAMBDA s1 :
    IF s1.panic THEN s1
    ELSE
    Bind(ensure_deposit_epoch(
             s1, caller,
             MapGet(s1.stability_pool_deposits, caller,
                    StabilityDeposit_new(s1.stability_pool_epoch))), LAMBDA r :
    LET available == StabilityDeposit_amount(r.deposit, r.s.stability_pool_total_nusd,
                                             r.s.stability_pool_total_shares)
        requested == IF amount = None THEN available ELSE amount
        shares == shares_for_withdraw(r.s, requested)
    IN IF r.s.panic THEN r.s
       ELSE IF ~(r.deposit.shares > 0) THEN Panic(r.s)
       ELSE IF MulOverflow(r.deposit.shares, r.s.stability_pool_total_nusd)
       THEN Panic(r.s)
       ELSE IF ~(available > 0) THEN Panic(r.s)
       ELSE IF ~(requested > 0) THEN Panic(r.s)
       ELSE IF ~(requested <= available) THEN Panic(r.s)
       ELSE IF shares_from_amount_panics(r.s, requested) THEN Panic(r.s)
       ELSE IF ~(shares > 0) THEN Panic(r.s)
       ELSE IF r.deposit.shares < shares
               \/ r.s.stability_pool_total_shares < shares
               \/ r.s.stability_pool_total_nusd < requested
       THEN Panic(r.s)
       ELSE
       Bind([r.s EXCEPT !.stability_pool_total_shares = @ - shares,
                        !.stability_pool_total_nusd = @ - requested,
                        !.stability_pool_deposits =
                             MapInsert(@, caller,
                                       [r.deposit EXCEPT !.shares = @ - shares])],
                                                                  LAMBDA s3 :
       Bind(ft_internal_withdraw(s3, CurrentAccountId, requested), LAMBDA s4 :
       ft_internal_deposit(s4, caller, requested)))))

claim_collateral_reward(s, caller, collateral_id, amount) ==
    Bind(settle_stability_rewards(s, caller), LAMBDA s1 :
         claim_collateral(s1, caller, collateral_id, amount))

\* redeem that pays out one unit of collateral per unit redeemed
redeem_at_par(s, redeemer, collateral_id, trove_owner, amount) ==
    IF ~(amount > 0) THEN Panic(s)
    ELSE IF expect_trove_panics(s, trove_owner, collateral_id) THEN Panic(s)
    ELSE
    LET trove == s.troves[trove_key(trove_owner, collateral_id)]
    IN IF ~(trove.debt_amount >= amount) THEN Panic(s)
       ELSE IF expect_price_panics(s, collateral_id) THEN Panic(s)
       ELSE
       LET price == s.price_feeds[collateral_id]
           divisor == decimals_factor(price.decimals)
           collateral_out == amount
       IN IF MulOverflow(amount, divisor) THEN Panic(s)
          ELSE IF ~(collateral_out > 0) THEN Panic(s)
          ELSE IF ~(trove.collateral_amount >= collateral_out) THEN Panic(s)
          ELSE
          LET trove2 == [trove EXCEPT !.debt_amount = @ - amount,
                                      !.collateral_amount = @ - collateral_out]
          IN Bind(IF trove2.debt_amount = 0 /\ trove2.collateral_amount = 0
                  THEN [s EXCEPT !.troves =
                           MapRemove(@, trove_key(trove_owner, collateral_id))]
                  ELSE save_trove(s, trove_owner, collateral_id, trove2), LAMBDA s1 :
             Bind(add_total_debt(s1, collateral_id, -amount), LAMBDA s2 :
             Bind(ft_internal_withdraw(s2, redeemer, amount), LAMBDA s3 :
             enqueue_collateral_reward(s3, redeemer, collateral_id, collateral_out))))

redeem(s, redeemer, collateral_id, trove_owner, amount) ==
    IF ~(amount > 0) THEN Panic(s)
    ELSE IF expect_trove_panics(s, trove_owner, collateral_id) THEN Panic(s)
    ELSE
    LET trove == s.troves[trove_key(trove_owner, collateral_id)]
    IN IF ~(trove.debt_amount >= amount) THEN Panic(s)
       ELSE IF expect_price_panics(s, collateral_id) THEN Panic(s)
       ELSE
       LET price == s.price_feeds[collateral_id]
           divisor == decimals_factor(price.decimals)
           collateral_out == (amount * divisor) \div price.price
       IN IF MulOverflow(amount, divisor) THEN Panic(s)
          ELSE IF ~(collateral_out > 0) THEN Panic(s)
          ELSE IF ~(trove.collateral_amount >= collateral_out) THEN Panic(s)
          ELSE
          LET trove2 == [trove EXCEPT !.debt_amount = @ - amount,
                                      !.collateral_amount = @ - collateral_out]
          IN Bind(IF trove2.debt_amount = 0 /\ trove2.collateral_amount = 0
                  THEN [s EXCEPT !.troves =
                           MapRemove(@, trove_key(trove_owner, collateral_id))]
                  ELSE save_trove(s, trove_owner, collateral_id, trove2), LAMBDA s1 :
             Bind(add_total_debt(s1, collateral_id, -amount), LAMBDA s2 :
             Bind(ft_internal_withdraw(s2, redeemer, amount), LAMBDA s3 :
             enqueue_collateral_reward(s3, redeemer, collateral_id, collateral_out))))

\* the loop body that counts a liquidation and leaves the trove stored
liquidate_one_keeps_trove(s, collateral_id, owner, price, config) ==
    LET key == trove_key(owner, collateral_id)
    IN IF s.panic THEN s
       ELSE IF key \notin DOMAIN s.troves THEN s
       ELSE
       LET trove == s.troves[key]
       IN IF trove.debt_amount = 0 THEN s
          ELSE IF collateral_ratio_panics(trove.collateral_amount, trove.debt_amount, price)
          THEN Panic(s)
          ELSE IF collateral_ratio(trove.collateral_amount, trove.debt_amount, price)
                    >= config.min_collateral_ratio_bps
          THEN s
          ELSE IF ~(s.stability_pool_total_nusd >= trove.debt_amount) THEN Panic(s)
          ELSE IF MulOverflow(trove.collateral_amount, config.liquidation_penalty_bps)
          THEN Panic(s)
          ELSE
          LET penalty == (trove.collateral_amount * config.liquidation_penalty_bps)
                            \div BPS_DENOMINATOR
          IN IF trove.collateral_amount < penalty THEN Panic(s)
             ELSE
             LET distributable == trove.collateral_amount - penalty
             IN Bind(accrue_reward_per_share(s, collateral_id, distributable),
                                                                      LAMBDA s1 :
                Bind(enqueue_collateral_reward(s1, OwnerId, collateral_id, penalty),
                                                                      LAMBDA s2 :
                Bind(burn_from_stability_pool(s2, trove.debt_amount), LAMBDA s3 :
                Bind(add_total_debt(s3, collateral_id, -trove.debt_amount),
                                                                      LAMBDA s4 :
                IF s4.panic THEN s4
                ELSE [s4 EXCEPT !.ret = @ + 1]))))

\* the body of liquidate's loop for one owner
liquidate_one(s, collateral_id, owner, price, config) ==
    LET key == trove_key(owner, collateral_id)
    IN IF s.panic THEN s
       ELSE IF key \notin DOMAIN s.troves THEN s
       ELSE
       LET trove == s.troves[key]
       IN IF trove.debt_amount = 0 THEN s
          ELSE IF collateral_ratio_panics(trove.collateral_amount, trove.debt_amount, price)
          THEN Panic(s)
          ELSE IF collateral_ratio(trove.collateral_amount, trove.debt_amount, price)
                    >= config.min_collateral_ratio_bps
          THEN s
          ELSE IF ~(s.stability_pool_total_nusd >= trove.debt_amount) THEN Panic(s)
          ELSE IF MulOverflow(trove.collateral_amount, config.liquidation_penalty_bps)
          THEN Panic(s)
          ELSE
          LET penalty == (trove.collateral_amount * config.liquidation_penalty_bps)
                            \div BPS_DENOMINATOR
          IN IF trove.collateral_amount < penalty THEN Panic(s)
             ELSE
             LET distributable == trove.collateral_amount - penalty
             IN Bind(accrue_reward_per_share(s, collateral_id, distributable),
                                                                      LAMBDA s1 :
                Bind(enqueue_collateral_reward(s1, OwnerId, collateral_id, penalty),
                                                                      LAMBDA s2 :
                Bind(burn_from_stability_pool(s2, trove.debt_amount), LAMBDA s3 :
                Bind(add_total_debt(s3, collateral_id, -trove.debt_amount),
                                                                      LAMBDA s4 :
                IF s4.panic THEN s4
                ELSE [s4 EXCEPT !.troves = MapRemove(@, key), !.ret = @ + 1]))))

RECURSIVE liquidate_loop(_, _, _, _, _)
liquidate_loop(s, collateral_id, owners, price, config) ==
    IF owners = << >> THEN s
    ELSE Bind(liquidate_one(s, collateral_id, Head(owners), price, config), LAMBDA s1 :
              liquidate_loop(s1, collateral_id, Tail(owners), price, config))

\* liquidate that reports the length of the list it was given
liquidate_counts_owners(s, caller, collateral_id, owners) ==
    IF ~(owners # << >>) THEN Panic(s)
    ELSE IF expect_price_panics(s, collateral_id) THEN Panic(s)
    ELSE IF expect_config_panics(s, collateral_id) THEN Panic(s)
    ELSE Bind(liquidate_loop(s, collateral_id, owners,
                             s.price_feeds[collateral_id], s.configs[collateral_id]),
              LAMBDA s1 : IF s1.panic THEN s1 ELSE [s1 EXCEPT !.ret = Len(owners)])

liquidate(s, caller, collateral_id, owners) ==
    IF ~(owners # << >>) THEN Panic(s)
    ELSE IF expect_price_panics(s, collateral_id) THEN Panic(s)
    ELSE IF expect_config_panics(s, collateral_id) THEN Panic(s)
    ELSE liquidate_loop(s, collateral_id, owners,
                        s.price_feeds[collateral_id], s.configs[collateral_id])

\* trigger_swap_via_intents asks the intent router for a swap and chains
\* on_swap_complete to it; it writes no field of the contract
trigger_swap_via_intents(s, caller, input_token, amount_in, attached) ==
    IF ~(caller = OwnerId) THEN Panic(s)
    ELSE IF ~(attached > 0) THEN Panic(s)
    ELSE IF ~(amount_in > 0) THEN Panic(s)
    ELSE s

\* on_swap_complete that credits the swap's input back to the caller when the
\* swap has failed
on_swap_complete_refunds(s, predecessor, caller_id, input_token, amount_in, succeeded) ==
    IF ~(predecessor = CurrentAccountId) THEN Panic(s)
    ELSE IF succeeded THEN [s EXCEPT !.ret = 1]
    ELSE enqueue_collateral_reward(s, caller_id, input_token, amount_in)

\* on_swap_complete is private: only the contract's own promise calls it, with
\* the swap's result; it logs and returns whether the swap succeeded
on_swap_complete(s, predecessor, caller_id, input_token, amount_in, succeeded) ==
    IF ~(predecessor = CurrentAccountId) THEN Panic(s)
    ELSE [s EXCEPT !.ret = IF succeeded THEN 1 ELSE 0]

\* ft_on_transfer: predecessor is the token contract that moved `amount`
ft_on_transfer(s, predecessor, sender_id, amount, action) ==
    IF predecessor = CurrentAccountId
    THEN IF action.action = "repay_debt"
         THEN Bind(ft_internal_withdraw(s, CurrentAccountId, amount), LAMBDA s1 :
                   internal_repay(s1, sender_id, action.collateral_id, amount))
         ELSE Panic(s)
    ELSE IF action.action = "deposit_collateral"
         THEN internal_deposit_collateral(
                  s, IF action.target_account = "" THEN sender_id
                     ELSE action.target_account,
                  predecessor, amount)
         ELSE Panic(s)

\* nUSD ft_transfer_call(receiver = this contract, msg = repay_debt): the
\* ledger moves the amount to the contract, ft_on_transfer burns it and repays;
\* a panic in ft_on_transfer makes ft_resolve_transfer refund the sender
ft_transfer_call_repay(s, sender_id, collateral_id, amount) ==
    IF ~(amount > 0) THEN Panic(s)
    ELSE Bind(ft_internal_withdraw(s, sender_id, amount), LAMBDA s0 :
         Bind(ft_internal_deposit(s0, CurrentAccountId, amount), LAMBDA s1 :
         ft_on_transfer(s1, CurrentAccountId, sender_id, amount,
                        [action |-> "repay_debt", collateral_id |-> collateral_id])))

storage_deposit(s, account_id) == ft_internal_register_account(s, account_id)

\* ------------------------------------------------------------------ views
get_stability_pool_deposit(account_id) ==
    IF account_id \in DOMAIN stability_pool_deposits
       /\ stability_pool_deposits[account_id].epoch = stability_pool_epoch
    THEN StabilityDeposit_amount(stability_pool_deposits[account_id],
                                 stability_pool_total_nusd, stability_pool_total_shares)
    ELSE 0

claimable_view(rewards, deposits, rps, account_id, collateral_id) ==
    LET total == MapGet(rewards, CollateralRewardKey(account_id, collateral_id), 0)
    IN IF account_id \in DOMAIN deposits /\ deposits[account_id].shares > 0
       THEN LET global == MapGet(rps, collateral_id, 0)
                paid == MapGet(deposits[account_id].reward_debt, collateral_id, 0)
            IN IF global > paid
               THEN total + (deposits[account_id].shares * (global - paid)) \div REWARD_SCALE
               ELSE total
       ELSE total

get_claimable_collateral_reward(account_id, collateral_id) ==
    claimable_view(collateral_rewards, stability_pool_deposits, reward_per_share,
                   account_id, collateral_id)

\* ------------------------------------------------------ collateral token
\* collateral of asset c held by the stored troves
TroveCollateral(tr, c) ==
    SumOver([k \in DOMAIN tr |-> tr[k].collateral_amount], {k \in DOMAIN tr : k[2] = c})

TroveDebt(tr, c) ==
    SumOver([k \in DOMAIN tr |-> tr[k].debt_amount], {k \in DOMAIN tr : k[2] = c})

\* the collateral token's ledger: the ft_transfer requests of one call are
\* delivered in order, each failing (and changing nothing) when the contract
\* holds less than it asks to send
RECURSIVE Deliver(_, _)
Deliver(cust, transfers) ==
    IF transfers = << >> THEN cust
    ELSE LET t == Head(transfers)
         IN Bind(IF cust[t.token] >= t.amount
                 THEN [cust EXCEPT ![t.token] = @ - t.amount]
                 ELSE cust,
                 LAMBDA left : Deliver(left, Tail(transfers)))

\* commit the record of a call that did not panic; `received` is what the
\* collateral token contract moved to this contract before calling it
Commit(r, received) ==
    /\ configs' = r.configs
    /\ troves' = r.troves
    /\ total_debt' = r.total_debt
    /\ price_feeds' = r.price_feeds
    /\ stability_pool_deposits' = r.stability_pool_deposits
    /\ collateral_rewards' = r.collateral_rewards
    /\ reward_per_share' = r.reward_per_share
    /\ stability_pool_total_shares' = r.stability_pool_total_shares
    /\ stability_pool_total_nusd' = r.stability_pool_total_nusd
    /\ stability_pool_epoch' = r.stability_pool_epoch
    /\ nusd' = r.nusd
    /\ custody' = Deliver([c \in Assets |-> custody[c] + received[c]], r.transfers)

NoCollateral == [c \in Assets |-> 0]

\* ------------------------------------------------------------------ state
Init ==
    /\ configs = EmptyMap
    /\ troves = EmptyMap
    /\ total_debt = EmptyMap
    /\ price_feeds = EmptyMap
    /\ stability_pool_deposits = EmptyMap
    /\ collateral_rewards = EmptyMap
    /\ reward_per_share = EmptyMap
    /\ stability_pool_total_shares = 0
    /\ stability_pool_total_nusd = 0
    /\ stability_pool_epoch = 0
    /\ nusd = [accounts |-> [a \in {CurrentAccountId, OwnerId} |-> 0], total_supply |-> 0]
    /\ custody = NoCollateral

\* ---------------------------------------------------------------- actions
StorageDeposit(account_id) ==
    \E r \in { storage_deposit(Self, account_id) } :
       /\ ~r.panic
       /\ Commit(r, NoCollateral)

RegisterCollateral(caller, token_id, config) ==
    \E r \in { register_collateral(Self, caller, token_id, config) } :
       /\ ~r.panic
       /\ Commit(r, NoCollateral)

SubmitPrice(caller, collateral_id, feed) ==
    \E r \in { submit_price(Self, caller, collateral_id, feed.price, feed.decimals) } :
       /\ ~r.panic
       /\ Commit(r, NoCollateral)

\* the collateral token's ft_transfer_call: the token moves `amount` to the
\* contract and calls ft_on_transfer (a panic there refunds the sender)
DepositCollateral(sender_id, token_id, amount) ==
    \E r \in { ft_on_transfer(Self, token_id, sender_id, amount,
                            [action |-> "deposit_collateral", target_account |-> ""]) } :
       /\ custody[token_id] + amount <= MaxCustody
       /\ ~r.panic
       /\ Commit(r, [c \in Assets |-> IF c = token_id THEN amount ELSE 0])

Borrow(caller, collateral_id, amount) ==
    \E r \in { borrow(Self, caller, collateral_id, amount) } :
       /\ ~r.panic
       /\ Commit(r, NoCollateral)

Repay(caller, collateral_id, amount) ==
    \E r \in { repay(Self, caller, collateral_id, amount) } :
       /\ ~r.panic
       /\ Commit(r, NoCollateral)

RepayViaFt(sender_id, collateral_id, amount) ==
    \E r \in { ft_transfer_call_repay(Self, sender_id, collateral_id, amount) } :
       /\ ~r.panic
       /\ Commit(r, NoCollateral)

WithdrawCollateral(caller, collateral_id, amount) ==
    \E r \in { withdraw_collateral(Self, caller, collateral_id, amount, "") } :
       /\ ~r.panic
       /\ Commit(r, NoCollateral)

CloseTrove(caller, collateral_id) ==
    \E r \in { close_trove(Self, caller, collateral_id) } :
       /\ ~r.panic
       /\ Commit(r, NoCollateral)

DepositToStabilityPool(caller, amount) ==
    \E r \in { deposit_to_stability_pool(Self, caller, amount) } :
       /\ ~r.panic
       /\ Commit(r, NoCollateral)

WithdrawFromStabilityPool(caller, amount) ==
    \E r \in { withdraw_from_stability_pool(Self, caller, amount) } :
       /\ ~r.panic
       /\ Commit(r, NoCollateral)

ClaimCollateralReward(caller, collateral_id, amount) ==
    \E r \in { claim_collateral_reward(Self, caller, collateral_id, amount) } :
       /\ ~r.panic
       /\ Commit(r, NoCollateral)

Redeem(redeemer, collateral_id, trove_owner, amount) ==
    \E r \in { redeem(Self, redeemer, collateral_id, trove_owner, amount) } :
       /\ ~r.panic
       /\ Commit(r, NoCollateral)

\* a call that returns 0 liquidated nothing and left every field as it was:
\* it is a stuttering step, so the action is the calls that return more
Liquidate(caller, collateral_id, owners) ==
    \E r \in { liquidate(Self, caller, collateral_id, owners) } :
       /\ ~r.panic
       /\ r.ret > 0
       /\ Commit(r, NoCollateral)

OwnerLists == UNION { [1..n -> Users] : n \in 1..MaxOwners }

\* The trove ledger, from construction: registration, prices, collateral,
\* debt, redemption and the claims of redeemed collateral.
Next ==
    \/ \E a \in Users : StorageDeposit(a)
    \/ \E caller \in {OwnerId, OracleId}, c \in Assets, cfg \in ConfigChoices :
          RegisterCollateral(caller, c, cfg)
    \/ \E caller \in {OwnerId, OracleId}, c \in Assets, f \in PriceChoices :
          SubmitPrice(caller, c, f)
    \/ \E u \in Users, c \in Assets, amt \in Amounts : DepositCollateral(u, c, amt)
    \/ \E u \in Users, c \in Assets, amt \in Amounts : Borrow(u, c, amt)
    \/ \E u \in Users, c \in Assets, amt \in Amounts : Repay(u, c, amt)
    \/ \E u \in Users, c \in Assets, amt \in Amounts : RepayViaFt(u, c, amt)
    \/ \E u \in Users, c \in Assets, amt \in 0..MaxAmount : WithdrawCollateral(u, c, amt)
    \/ \E u \in Users, c \in Assets : CloseTrove(u, c)
    \/ \E a \in Accounts, c \in Assets, amt \in {None} \cup Amounts :
          ClaimCollateralReward(a, c, amt)
    \/ \E u \in Users, o \in Users, c \in Assets, amt \in Amounts : Redeem(u, c, o, amt)

Spec == Init /\ [][Next]_vars

\* The stability pool and the liquidations, from the states in which both
\* users have opened a trove at price 1.0 under the first config and hold the
\* stablecoin they borrowed: 2 collateral and 2 debt each, or alice 2
\* collateral and 1 debt with bob 3 collateral and 3 debt.
PoolSetups ==
    { [collateral |-> [alice |-> 2, bob |-> 2], debt |-> [alice |-> 2, bob |-> 2]],
      [collateral |-> [alice |-> 2, bob |-> 3], debt |-> [alice |-> 1, bob |-> 3]] }

PoolConfig ==
    [min_collateral_ratio_bps |-> 1100, recovery_collateral_ratio_bps |-> 1500,
     debt_ceiling |-> 4, liquidation_penalty_bps |-> 5000]

InitPool ==
    \E setup \in PoolSetups :
    /\ configs = [c \in Assets |-> PoolConfig]
    /\ troves = [k \in Users \X Assets |->
                    [collateral_amount |-> setup.collateral[k[1]],
                     debt_amount |-> setup.debt[k[1]]]]
    /\ total_debt = [c \in Assets |-> setup.debt.alice + setup.debt.bob]
    /\ price_feeds = [c \in Assets |-> [price |-> 1, decimals |-> 0]]
    /\ stability_pool_deposits = EmptyMap
    /\ collateral_rewards = EmptyMap
    /\ reward_per_share = EmptyMap
    /\ stability_pool_total_shares = 0
    /\ stability_pool_total_nusd = 0
    /\ stability_pool_epoch = 0
    /\ nusd = [accounts |-> [a \in {CurrentAccountId, OwnerId} \cup Users |->
                                IF a \in Users THEN setup.debt[a] ELSE 0],
               total_supply |-> setup.debt.alice + setup.debt.bob]
    /\ custody = [c \in Assets |-> setup.collateral.alice + setup.collateral.bob]

NextPool ==
    \/ \E caller \in {OwnerId, OracleId}, c \in Assets, f \in PriceChoices :
          SubmitPrice(caller, c, f)
    \/ \E u \in Users, c \in Assets, amt \in Amounts : Repay(u, c, amt)
    \/ \E u \in Users, c \in Assets, amt \in Amounts : RepayViaFt(u, c, amt)
    \/ \E u \in Users, o \in Users, c \in Assets, amt \in Amounts : Redeem(u, c, o, amt)
    \/ \E u \in Users, amt \in Amounts : DepositToStabilityPool(u, amt)
    \/ \E u \in Users, amt \in {None} \cup Amounts : WithdrawFromStabilityPool(u, amt)
    \/ \E a \in Accounts, c \in Assets, amt \in {None} \cup Amounts :
          ClaimCollateralReward(a, c, amt)
    \/ \E u \in Users, c \in Assets, owners \in OwnerLists : Liquidate(u, c, owners)

SpecPool == InitPool /\ [][NextPool]_vars

NextDebt ==
    \/ \E caller \in {OwnerId, OracleId}, c \in Assets, f \in PriceChoices :
          SubmitPrice(caller, c, f)
    \/ \E u \in Users, c \in Assets, amt \in Amounts : Borrow(u, c, amt)
    \/ \E u \in Users, c \in Assets, amt \in Amounts : Repay(u, c, amt)
    \/ \E u \in Users, c \in Assets, amt \in Amounts : RepayViaFt(u, c, amt)
    \/ \E u \in Users, o \in Users, c \in Assets, amt \in Amounts : Redeem(u, c, o, amt)
    \/ \E u \in Users, amt \in Amounts : DepositToStabilityPool(u, amt)
    \/ \E u \in Users, c \in Assets, owners \in OwnerLists : Liquidate(u, c, owners)

\* Every operation that changes a debt, from the same states as SpecPool.
SpecDebt == InitPool /\ [][NextDebt]_vars

\* prices at which a redemption pays out another number than the amount
\* redeemed, and at which a trove of 3 collateral is healthy while a trove of 2
\* is not: 1.0, 0.4 and 2.0
RedeemPrices ==
    { [price |-> 1, decimals |-> 0], [price |-> 4, decimals |-> 1],
      [price |-> 2, decimals |-> 0] }

NextRedeem ==
    \/ \E caller \in {OwnerId, OracleId}, c \in Assets, f \in RedeemPrices :
          SubmitPrice(caller, c, f)
    \/ \E u \in Users, o \in Users, c \in Assets, amt \in Amounts : Redeem(u, c, o, amt)
    \/ \E u \in Users, amt \in Amounts : DepositToStabilityPool(u, amt)
    \/ \E a \in Accounts, c \in Assets, amt \in {None} \cup Amounts :
          ClaimCollateralReward(a, c, amt)
    \/ \E u \in Users, c \in Assets, owners \in OwnerLists : Liquidate(u, c, owners)

\* Redemptions and liquidations at these prices, from the same states as SpecPool.
SpecRedeem == InitPool /\ [][NextRedeem]_vars

\* A pool whose shares are worth less than one stablecoin each while two
\* accounts hold shares needs more stablecoin than PoolSetups lends: alice has
\* borrowed 3 and bob 2 against 2 collateral each, at price 1.0 under a debt
\* ceiling of 5.
SharesSetup ==
    [collateral |-> [alice |-> 2, bob |-> 2], debt |-> [alice |-> 3, bob |-> 2]]

SharesConfig ==
    [min_collateral_ratio_bps |-> 1100, recovery_collateral_ratio_bps |-> 1500,
     debt_ceiling |-> 5, liquidation_penalty_bps |-> 5000]

InitShares ==
    /\ configs = [c \in Assets |-> SharesConfig]
    /\ troves = [k \in Users \X Assets |->
                    [collateral_amount |-> SharesSetup.collateral[k[1]],
                     debt_amount |-> SharesSetup.debt[k[1]]]]
    /\ total_debt = [c \in Assets |-> SharesSetup.debt.alice + SharesSetup.debt.bob]
    /\ price_feeds = [c \in Assets |-> [price |-> 1, decimals |-> 0]]
    /\ stability_pool_deposits = EmptyMap
    /\ collateral_rewards = EmptyMap
    /\ reward_per_share = EmptyMap
    /\ stability_pool_total_shares = 0
    /\ stability_pool_total_nusd = 0
    /\ stability_pool_epoch = 0
    /\ nusd = [accounts |-> [a \in {CurrentAccountId, OwnerId} \cup Users |->
                                IF a \in Users THEN SharesSetup.debt[a] ELSE 0],
               total_supply |-> SharesSetup.debt.alice + SharesSetup.debt.bob]
    /\ custody = [c \in Assets |->
                     SharesSetup.collateral.alice + SharesSetup.collateral.bob]

NextShares ==
    \/ \E caller \in {OwnerId, OracleId}, c \in Assets, f \in PriceChoices :
          SubmitPrice(caller, c, f)
    \/ \E u \in Users, amt \in Amounts : DepositToStabilityPool(u, amt)
    \/ \E u \in Users, amt \in {None} \cup Amounts : WithdrawFromStabilityPool(u, amt)
    \/ \E a \in Accounts, c \in Assets, amt \in {None} \cup Amounts :
          ClaimCollateralReward(a, c, amt)
    \/ \E u \in Users, c \in Assets, owners \in OwnerLists : Liquidate(u, c, owners)

\* Deposits, withdrawals and liquidations from that state.
SpecShares == InitShares /\ [][NextShares]_vars

\* A withdrawal that lowers what another account's shares are worth needs a
\* larger pool: alice has borrowed 3 and bob 5 against 2 collateral each, at
\* price 1.0 under a debt ceiling of 8.
InitDilution ==
    /\ configs = [c \in Assets |-> [SharesConfig EXCEPT !.debt_ceiling = 8]]
    /\ troves = [k \in Users \X Assets |->
                    [collateral_amount |-> 2,
                     debt_amount |-> IF k[1] = "alice" THEN 3 ELSE 5]]
    /\ total_debt = [c \in Assets |-> 8]
    /\ price_feeds = [c \in Assets |-> [price |-> 1, decimals |-> 0]]
    /\ stability_pool_deposits = EmptyMap
    /\ collateral_rewards = EmptyMap
    /\ reward_per_share = EmptyMap
    /\ stability_pool_total_shares = 0
    /\ stability_pool_total_nusd = 0
    /\ stability_pool_epoch = 0
    /\ nusd = [accounts |-> [a \in {CurrentAccountId, OwnerId} \cup Users |->
                                IF a = "alice" THEN 3 ELSE IF a = "bob" THEN 5 ELSE 0],
               total_supply |-> 8]
    /\ custody = [c \in Assets |-> 4]

\* The steps of SpecShares from that state.
SpecDilution == InitDilution /\ [][NextShares]_vars

\* ---- liquidation of troves with large collateral: internal_deposit_collateral
\* accepts every amount that keeps the trove's collateral within the word, so
\* both users have deposited an amount of the order of U128_MAX / REWARD_SCALE
\* and borrowed 2 at the price 0.000001, where the collateral is worth 1 or 2
\* (1000000 or 2000000 each), under a liquidation penalty of 50 basis points
InitLiquidation ==
    \E collateral \in [Users -> {1000000, 2000000}] :
    /\ configs = [c \in Assets |-> [SharesConfig EXCEPT !.debt_ceiling = 4,
                                                     !.liquidation_penalty_bps = 50]]
    /\ troves = [k \in Users \X Assets |->
                    [collateral_amount |-> collateral[k[1]], debt_amount |-> 2]]
    /\ total_debt = [c \in Assets |-> 4]
    /\ price_feeds = [c \in Assets |-> [price |-> 1, decimals |-> 6]]
    /\ stability_pool_deposits = EmptyMap
    /\ collateral_rewards = EmptyMap
    /\ reward_per_share = EmptyMap
    /\ stability_pool_total_shares = 0
    /\ stability_pool_total_nusd = 0
    /\ stability_pool_epoch = 0
    /\ nusd = [accounts |-> [a \in {CurrentAccountId, OwnerId} \cup Users |->
                                IF a \in Users THEN 2 ELSE 0],
               total_supply |-> 4]
    /\ custody = [c \in Assets |-> collateral.alice + collateral.bob]

NextLiquidation ==
    \/ \E caller \in {OwnerId, OracleId}, c \in Assets, decimals \in {6, 7} :
          SubmitPrice(caller, c, [price |-> 1, decimals |-> decimals])
    \/ \E u \in Users, c \in Assets, amt \in Amounts : Repay(u, c, amt)
    \/ \E u \in Users, amt \in Amounts : DepositToStabilityPool(u, amt)
    \/ \E u \in Users, amt \in {None} \cup Amounts : WithdrawFromStabilityPool(u, amt)
    \/ \E u \in Users, c \in Assets, owners \in OwnerLists : Liquidate(u, c, owners)

\* Pool deposits, price submissions and liquidations from those states.
SpecLiquidation == InitLiquidation /\ [][NextLiquidation]_vars

\* ---- transfers that can fail
\* commit the record of a call that asked the collateral token for transfers;
\* the token contract runs them after the call has returned and either
\* delivers them or fails, and nothing of this contract runs on either outcome
CommitOutcome(r, delivered) ==
    /\ configs' = r.configs
    /\ troves' = r.troves
    /\ total_debt' = r.total_debt
    /\ price_feeds' = r.price_feeds
    /\ stability_pool_deposits' = r.stability_pool_deposits
    /\ collateral_rewards' = r.collateral_rewards
    /\ reward_per_share' = r.reward_per_share
    /\ stability_pool_total_shares' = r.stability_pool_total_shares
    /\ stability_pool_total_nusd' = r.stability_pool_total_nusd
    /\ stability_pool_epoch' = r.stability_pool_epoch
    /\ nusd' = r.nusd
    /\ custody' = IF delivered THEN Deliver(custody, r.transfers) ELSE custody

ClaimCollateralRewardOutcome(caller, collateral_id, amount, delivered) ==
    \E r \in { claim_collateral_reward(Self, caller, collateral_id, amount) } :
       /\ ~r.panic
       /\ CommitOutcome(r, delivered)

WithdrawCollateralOutcome(caller, collateral_id, amount, delivered) ==
    \E r \in { withdraw_collateral(Self, caller, collateral_id, amount, "") } :
       /\ ~r.panic
       /\ CommitOutcome(r, delivered)

CloseTroveOutcome(caller, collateral_id, delivered) ==
    \E r \in { close_trove(Self, caller, collateral_id) } :
       /\ ~r.panic
       /\ CommitOutcome(r, delivered)

TriggerSwapViaIntents(caller, input_token, amount_in, attached) ==
    \E r \in { trigger_swap_via_intents(Self, caller, input_token, amount_in, attached) } :
       /\ ~r.panic
       /\ Commit(r, NoCollateral)

OnSwapComplete(caller_id, input_token, amount_in, succeeded) ==
    \E r \in { on_swap_complete(Self, CurrentAccountId, caller_id, input_token,
                                amount_in, succeeded) } :
       /\ ~r.panic
       /\ Commit(r, NoCollateral)

NextTransfer ==
    \/ \E caller \in {OwnerId, OracleId}, c \in Assets, f \in PriceChoices :
          SubmitPrice(caller, c, f)
    \/ \E u \in Users, c \in Assets, amt \in Amounts : Repay(u, c, amt)
    \/ \E u \in Users, o \in Users, c \in Assets, amt \in Amounts : Redeem(u, c, o, amt)
    \/ \E a \in Accounts, c \in Assets, amt \in {None} \cup Amounts, d \in BOOLEAN :
          ClaimCollateralRewardOutcome(a, c, amt, d)
    \/ \E u \in Users, c \in Assets, amt \in Amounts, d \in BOOLEAN :
          WithdrawCollateralOutcome(u, c, amt, d)
    \/ \E u \in Users, c \in Assets, d \in BOOLEAN : CloseTroveOutcome(u, c, d)
    \/ \E caller \in Accounts, c \in Assets, amt \in Amounts, attached \in 0..1 :
          TriggerSwapViaIntents(caller, c, amt, attached)
    \/ \E a \in Accounts, c \in Assets, amt \in Amounts, ok \in BOOLEAN :
          OnSwapComplete(a, c, amt, ok)

\* The calls that ask for a collateral transfer, with both outcomes of the
\* transfer, and the owner's swap with its callback, from the same states as
\* SpecPool.
SpecTransfer == InitPool /\ [][NextTransfer]_vars

\* ---- calls that are rejected
\* what a call leaves in the contract: a panic discards every write the call
\* has made and every promise it has created
CallOutcome(s, r) == IF r.panic THEN [s EXCEPT !.panic = TRUE] ELSE r

NextCalls ==
    \/ \E caller \in {OwnerId, OracleId}, c \in Assets, f \in PriceChoices :
          SubmitPrice(caller, c, f)
    \/ \E u \in Users, c \in Assets, amt \in Amounts : Repay(u, c, amt)
    \/ \E u \in Users, c \in Assets, amt \in 0..MaxAmount : WithdrawCollateral(u, c, amt)
    \/ \E u \in Users, c \in Assets : CloseTrove(u, c)
    \/ \E u \in Users, o \in Users, c \in Assets, amt \in Amounts : Redeem(u, c, o, amt)
    \/ \E u \in Users, amt \in Amounts : DepositToStabilityPool(u, amt)
    \/ \E u \in Users, c \in Assets, owners \in OwnerLists : Liquidate(u, c, owners)

\* The calls on troves and the liquidations, from the same states as SpecPool.
SpecCalls == InitPool /\ [][NextCalls]_vars

\* ---- collateral_ratio on bounded inputs: one trove whose collateral and
\* debt, and a price feed, are drawn from sets that make both products of
\* collateral_ratio overflow for some inputs and fit for others
RatioCollaterals == {10, 10000, 50000}

\* borrows and withdrawals move the trove at most this far from the drawn inputs
MaxRatioSteps == 3

RatioDebts == {0, 3, 4000}

\* 1, 3, 0.05, 2.0000 and 4.0000
RatioPrices ==
    { [price |-> 1, decimals |-> 0], [price |-> 3, decimals |-> 0],
      [price |-> 5, decimals |-> 2], [price |-> 20000, decimals |-> 4],
      [price |-> 40000, decimals |-> 4] }

RatioConfig ==
    [min_collateral_ratio_bps |-> 1300, recovery_collateral_ratio_bps |-> 1500,
     debt_ceiling |-> 5000, liquidation_penalty_bps |-> 5000]

InitRatio ==
    \E collateral \in RatioCollaterals, debt \in RatioDebts, feed \in RatioPrices :
    /\ configs = [c \in Assets |-> RatioConfig]
    /\ troves = [k \in {"alice"} \X Assets |->
                    [collateral_amount |-> collateral, debt_amount |-> debt]]
    /\ total_debt = IF debt = 0 THEN EmptyMap ELSE [c \in Assets |-> debt]
    /\ price_feeds = [c \in Assets |-> feed]
    /\ stability_pool_deposits = EmptyMap
    /\ collateral_rewards = EmptyMap
    /\ reward_per_share = EmptyMap
    /\ stability_pool_total_shares = 0
    /\ stability_pool_total_nusd = 0
    /\ stability_pool_epoch = 0
    /\ nusd = [accounts |-> [a \in {CurrentAccountId, OwnerId, "alice"} |->
                                IF a = "alice" THEN debt ELSE 0],
               total_supply |-> debt]
    /\ custody = [c \in Assets |-> collateral]

NextRatio ==
    \/ \E caller \in {OwnerId, OracleId}, c \in Assets, f \in RatioPrices :
          SubmitPrice(caller, c, f)
    \/ \E u \in Users, c \in Assets, amt \in Amounts :
          /\ trove_key(u, c) \in DOMAIN troves
          /\ \E debt \in RatioDebts :
                troves[trove_key(u, c)].debt_amount + amt \in debt..(debt + MaxRatioSteps)
          /\ Borrow(u, c, amt)
    \/ \E u \in Users, c \in Assets, amt \in Amounts :
          /\ trove_key(u, c) \in DOMAIN troves
          /\ \E collateral \in RatioCollaterals :
                troves[trove_key(u, c)].collateral_amount - amt
                    \in (collateral - MaxRatioSteps)..collateral
          /\ WithdrawCollateral(u, c, amt)

SpecRatio == InitRatio /\ [][NextRatio]_vars

\* ---- the liquidation scenario of the integration test: two troves of
\* collateral 10000 and debt 4000 under a 1300 bps MCR, the price 200.00, then
\* 0.05.  Amounts are counted in units of 100 tokens, which keeps value * 10000
\* inside the word and changes no quotient of the scenario (10000 * 20000 and
\* 10000 * 5 are multiples of 100 * 10^2).
ScenarioUnit == 100

ScenarioCollateral == 10000 \div ScenarioUnit

ScenarioDebt == 4000 \div ScenarioUnit

ScenarioHighPrice == [price |-> 20000, decimals |-> 2]

ScenarioLowPrice == [price |-> 5, decimals |-> 2]

ScenarioConfig ==
    [min_collateral_ratio_bps |-> 1300, recovery_collateral_ratio_bps |-> 1500,
     debt_ceiling |-> 10000, liquidation_penalty_bps |-> 50]

ScenarioDeposits == {ScenarioDebt \div 4, ScenarioDebt \div 2, ScenarioDebt}

InitScenario ==
    /\ configs = [c \in Assets |-> ScenarioConfig]
    /\ troves = [k \in Users \X Assets |->
                    [collateral_amount |-> ScenarioCollateral,
                     debt_amount |-> ScenarioDebt]]
    /\ total_debt = [c \in Assets |-> 2 * ScenarioDebt]
    /\ price_feeds = [c \in Assets |-> ScenarioHighPrice]
    /\ stability_pool_deposits = EmptyMap
    /\ collateral_rewards = EmptyMap
    /\ reward_per_share = EmptyMap
    /\ stability_pool_total_shares = 0
    /\ stability_pool_total_nusd = 0
    /\ stability_pool_epoch = 0
    /\ nusd = [accounts |-> [a \in {CurrentAccountId, OwnerId} \cup Users |->
                                IF a \in Users THEN ScenarioDebt ELSE 0],
               total_supply |-> 2 * ScenarioDebt]
    /\ custody = [c \in Assets |-> 2 * ScenarioCollateral]

NextScenario ==
    \/ \E caller \in {OwnerId, OracleId}, c \in Assets,
          f \in {ScenarioHighPrice, ScenarioLowPrice} : SubmitPrice(caller, c, f)
    \/ \E u \in Users, amt \in ScenarioDeposits : DepositToStabilityPool(u, amt)
    \/ \E u \in Users, c \in Assets, owners \in OwnerLists : Liquidate(u, c, owners)

SpecScenario == InitScenario /\ [][NextScenario]_vars

\* ---- the stored parameters, from construction: configs and prices that
\* pass the checks of register_collateral and submit_price and ones that fail
\* each of them, submitted by every account
ConfigInputs ==
    ConfigChoices \cup
    { [min_collateral_ratio_bps |-> 1099, recovery_collateral_ratio_bps |-> 1500,
       debt_ceiling |-> 4, liquidation_penalty_bps |-> 5000],
      [min_collateral_ratio_bps |-> 1500, recovery_collateral_ratio_bps |-> 1499,
       debt_ceiling |-> 4, liquidation_penalty_bps |-> 5000],
      [min_collateral_ratio_bps |-> 1500, recovery_collateral_ratio_bps |-> 1500,
       debt_ceiling |-> 0, liquidation_penalty_bps |-> 0],
      [min_collateral_ratio_bps |-> 0, recovery_collateral_ratio_bps |-> 0,
       debt_ceiling |-> 4, liquidation_penalty_bps |-> 5000] }

PriceInputs ==
    PriceChoices \cup
    { [price |-> 1, decimals |-> 18], [price |-> 7, decimals |-> 18],
      [price |-> 1, decimals |-> 19], [price |-> 0, decimals |-> 0],
      [price |-> 0, decimals |-> 19], [price |-> 1, decimals |-> 255] }

Callers == Accounts \cup {OracleId, CurrentAccountId}

NextParams ==
    \/ \E a \in Users : StorageDeposit(a)
    \/ \E caller \in Callers, c \in Assets, cfg \in ConfigInputs :
          RegisterCollateral(caller, c, cfg)
    \/ \E caller \in Callers, c \in Assets, f \in PriceInputs :
          SubmitPrice(caller, c, f)
    \/ \E u \in Users, c \in Assets, amt \in Amounts : DepositCollateral(u, c, amt)

SpecParams == Init /\ [][NextParams]_vars

\* ---- the calls on troves, liquidations and pool deposits, from the same
\* states as SpecPool; collateral is added to troves that are open, and a
\* trove borrows up to a debt of MaxAmount
NextFrame ==
    \/ \E caller \in {OwnerId, OracleId}, c \in Assets, f \in PriceChoices :
          SubmitPrice(caller, c, f)
    \/ \E u \in Users, c \in Assets, amt \in Amounts :
          /\ trove_key(u, c) \in DOMAIN troves
          /\ DepositCollateral(u, c, amt)
    \/ \E u \in Users, c \in Assets, amt \in Amounts :
          /\ trove_key(u, c) \in DOMAIN troves
          /\ troves[trove_key(u, c)].debt_amount + amt <= MaxAmount
          /\ Borrow(u, c, amt)
    \/ \E u \in Users, c \in Assets, amt \in Amounts : Repay(u, c, amt)
    \/ \E u \in Users, c \in Assets, amt \in 0..MaxAmount : WithdrawCollateral(u, c, amt)
    \/ \E u \in Users, c \in Assets : CloseTrove(u, c)
    \/ \E u \in Users, o \in Users, c \in Assets, amt \in Amounts : Redeem(u, c, o, amt)
    \/ \E u \in Users, amt \in Amounts : DepositToStabilityPool(u, amt)
    \/ \E u \in Users, c \in Assets, owners \in OwnerLists : Liquidate(u, c, owners)

SpecFrame == InitPool /\ [][NextFrame]_vars

\* ================================================================ claims
TroveRatio(tr, feeds, k) ==
    collateral_ratio(tr[k].collateral_amount, tr[k].debt_amount, feeds[k[2]])

\* C1: right after a successful borrow or withdraw_collateral that leaves the
\* caller's trove with debt > 0, the trove's ratio at the current price is at
\* least the asset's min_collateral_ratio_bps; and a withdraw_collateral whose
\* reduced collateral would put the ratio below it is rejected (the call
\* panics, so the trove stays as it was).
C1_RatioHeldAfterBorrowWithdraw ==
    /\ [][\A u \in Users, c \in Assets :
            LET k == trove_key(u, c)
            IN (/\ \/ \E amt \in Amounts : Borrow(u, c, amt)
                   \/ \E amt \in 0..MaxAmount : WithdrawCollateral(u, c, amt)
                /\ k \in DOMAIN troves'
                /\ troves'[k].debt_amount > 0)
               => TroveRatio(troves', price_feeds', k)
                     >= configs'[c].min_collateral_ratio_bps]_vars
    /\ [](\A u \in Users, c \in Assets, amt \in 0..MaxAmount :
            LET k == trove_key(u, c)
            IN (/\ k \in DOMAIN troves
                /\ c \in DOMAIN price_feeds /\ c \in DOMAIN configs
                /\ troves[k].collateral_amount >= amt
                /\ troves[k].debt_amount > 0
                /\ collateral_ratio(troves[k].collateral_amount - amt,
                                    troves[k].debt_amount, price_feeds[c])
                     < configs[c].min_collateral_ratio_bps)
               => withdraw_collateral(Self, u, c, amt, "").panic)

\* a trove with debt sits exactly at the minimum ratio and the withdrawal of
\* one unit of its collateral is refused
C1_Witness ==
    \E u \in Users, c \in Assets :
        LET k == trove_key(u, c)
        IN /\ k \in DOMAIN troves /\ c \in DOMAIN price_feeds /\ c \in DOMAIN configs
           /\ troves[k].debt_amount > 0
           /\ troves[k].collateral_amount >= 1
           /\ TroveRatio(troves, price_feeds, k) = configs[c].min_collateral_ratio_bps
           /\ withdraw_collateral(Self, u, c, 1, "").panic

\* C2: in every reachable state total_debt[asset] (0 when absent) is the sum
\* of debt_amount over the stored troves of the asset.
C2_TotalDebtIsSumOfTroveDebts ==
    \A c \in Assets : MapGet(total_debt, c, 0) = TroveDebt(troves, c)

\* a liquidation removed one of the troves and the other one still owes
C2_Witness ==
    \E c \in Assets :
        /\ c \in DOMAIN reward_per_share
        /\ Cardinality(DOMAIN troves) = 1
        /\ MapGet(total_debt, c, 0) > 0

\* C3: total_debt[asset] never exceeds the debt_ceiling of the config that is
\* currently registered for the asset.
C3_TotalDebtWithinCeiling ==
    \A c \in DOMAIN configs : MapGet(total_debt, c, 0) <= configs[c].debt_ceiling

\* ---- the reward ledger before and after a step
View(a, c) == get_claimable_collateral_reward(a, c)

ViewAfter(a, c) ==
    claimable_view(collateral_rewards', stability_pool_deposits', reward_per_share',
                   a, c)

OwnerReward(rewards, c) == MapGet(rewards, CollateralRewardKey(OwnerId, c), 0)

\* stored claimable balances of asset c, over all accounts
StoredRewards(rewards, c) == SumOver(rewards, {k \in DOMAIN rewards : k[2] = c})

\* the shares of a that count in stability_pool_total_shares
EffectiveShares(a) ==
    IF a \in DOMAIN stability_pool_deposits
       /\ stability_pool_deposits[a].epoch = stability_pool_epoch
    THEN stability_pool_deposits[a].shares
    ELSE 0

\* a record of an earlier epoch that still carries shares
Stale(a) ==
    /\ a \in DOMAIN stability_pool_deposits
    /\ stability_pool_deposits[a].epoch # stability_pool_epoch
    /\ stability_pool_deposits[a].shares > 0

\* ---- what a liquidation step removed
LiquidateStep(c) == \E u \in Users, owners \in OwnerLists : Liquidate(u, c, owners)

Removed(c) == {k \in DOMAIN troves : k[2] = c /\ k \notin DOMAIN troves'}

Penalty(k) ==
    (troves[k].collateral_amount * configs[k[2]].liquidation_penalty_bps)
        \div BPS_DENOMINATOR

Distributable(k) == troves[k].collateral_amount - Penalty(k)

PenaltySum(c) == SumOver([k \in DOMAIN troves |-> Penalty(k)], Removed(c))

DistributableSum(c) == SumOver([k \in DOMAIN troves |-> Distributable(k)], Removed(c))

DebtSum(c) == SumOver([k \in DOMAIN troves |-> troves[k].debt_amount], Removed(c))

\* the troves of the list that liquidate finds under the minimum ratio
Liquidatable(c, owners) ==
    {k \in DOMAIN troves :
        /\ k[2] = c
        /\ \E i \in DOMAIN owners : k[1] = owners[i]
        /\ troves[k].debt_amount > 0
        /\ TroveRatio(troves, price_feeds, k) < configs[c].min_collateral_ratio_bps}

\* C4: the claimable balances of an asset plus what claims already paid out
\* never exceed the collateral that liquidations and redemptions took out of
\* troves.  The contract's collateral token balance is what troves hold plus
\* what was taken out of troves minus what claims paid out, so the claim is:
\* stored claimable balances <= token balance - collateral held by troves.
C4_NoCollateralCreated ==
    \A c \in Assets :
        StoredRewards(collateral_rewards, c) + TroveCollateral(troves, c) <= custody[c]

\* C5: a liquidation that happens while a record is stale leaves that record's
\* claimable reward as it was, and a claim_collateral_reward of a stale
\* account leaves its record with 0 shares in the current epoch.
C5_StaleDepositEarnsNothingLater ==
    [][\A a \in Users, c \in Assets :
          Stale(a) =>
            /\ LiquidateStep(c) => ViewAfter(a, c) = View(a, c)
            /\ (\E amt \in {None} \cup Amounts : ClaimCollateralReward(a, c, amt))
                  => /\ stability_pool_deposits'[a].shares = 0
                     /\ stability_pool_deposits'[a].epoch = stability_pool_epoch']_vars

\* C6: a deposit_to_stability_pool changes nobody's claimable reward: neither
\* the depositor's (nothing of the earlier liquidations comes with the new
\* shares) nor that of any account that was in the pool before.
C6_DepositGetsNoPastReward ==
    [][(\E u \in Users, amt \in Amounts : DepositToStabilityPool(u, amt))
          => \A a \in Accounts, c \in Assets : ViewAfter(a, c) = View(a, c)]_vars

\* in an epoch that a draining liquidation opened, one user holds fresh
\* shares and no reward while the other user still has a reward to claim
C6_Witness ==
    \E u \in Users, v \in Users, c \in Assets :
        /\ u # v
        /\ stability_pool_epoch >= 1
        /\ EffectiveShares(u) > 0
        /\ View(u, c) = 0
        /\ View(v, c) > 0

\* C7: a liquidation step that distributes D over S total shares raises the
\* claimable reward of a user by at most its pro-rata part of D, computed
\* from the shares it holds among the S (rounded up once per liquidated
\* trove); and a deposit or withdrawal changes nobody's claimable reward.
C7_RewardFixedBySharesAtLiquidation ==
    [][/\ \A a \in Users, c \in Assets :
            LiquidateStep(c) =>
               (ViewAfter(a, c) - View(a, c)) * stability_pool_total_shares
                  <= EffectiveShares(a) * DistributableSum(c)
                       + Cardinality(Removed(c)) * (stability_pool_total_shares - 1)
       /\ (\E u \in Users, amt \in {None} \cup Amounts :
              \/ amt # None /\ DepositToStabilityPool(u, amt)
              \/ WithdrawFromStabilityPool(u, amt))
            => \A a \in Accounts, c \in Assets : ViewAfter(a, c) = View(a, c)]_vars

\* C8: over a liquidation step the owner's claimable balance grows by exactly
\* the penalties floor(collateral * liquidation_penalty_bps / 10000) of the
\* troves it removed, and the accumulator of the asset grows by
\* floor(distributable * REWARD_SCALE / total shares) for each of them, with
\* distributable = collateral - penalty: nothing of the distributable part
\* goes anywhere else.
C8_PenaltyAndDistributableSplit ==
    [][\A c \in Assets :
          LiquidateStep(c) =>
             /\ stability_pool_total_shares > 0
             /\ OwnerReward(collateral_rewards', c) - OwnerReward(collateral_rewards, c)
                   = PenaltySum(c)
             /\ MapGet(reward_per_share', c, 0) - MapGet(reward_per_share, c, 0)
                   = SumOver([k \in DOMAIN troves |->
                                 (Distributable(k) * REWARD_SCALE)
                                     \div stability_pool_total_shares],
                             Removed(c))
             /\ \A k \in Removed(c) :
                   Penalty(k) + Distributable(k) = troves[k].collateral_amount]_vars

\* bob's trove of 3 collateral was liquidated against 3 shares: 1 went to the
\* owner and 2 to the accumulator
C8_Witness ==
    \E c \in Assets :
        /\ trove_key("bob", c) \notin DOMAIN troves
        /\ trove_key("alice", c) \in DOMAIN troves
        /\ OwnerReward(collateral_rewards, c) = 1
        /\ MapGet(reward_per_share, c, 0) = (2 * REWARD_SCALE) \div 3

\* the account that holds every share of the pool, if there is one
SoleHolder(d) == stability_pool_total_shares > 0
                 /\ EffectiveShares(d) = stability_pool_total_shares

\* C9 as stated: a liquidation of one trove while one account holds all
\* shares raises that account's claimable reward by exactly the
\* distributable part, and the owner's by the penalty only.
C9_SoleHolderGetsExactlyDistributable ==
    [][\A d \in Users, c \in Assets :
          (LiquidateStep(c) /\ SoleHolder(d) /\ Cardinality(Removed(c)) = 1)
            => /\ ViewAfter(d, c) - View(d, c) = DistributableSum(c)
               /\ OwnerReward(collateral_rewards', c) - OwnerReward(collateral_rewards, c)
                     = PenaltySum(c)]_vars

\* C9 amended: the sole holder's claimable reward grows by at most the
\* distributable part and by no less than distributable - 1 -
\* floor(shares / REWARD_SCALE); it grows by exactly the distributable part
\* when the shares divide distributable * REWARD_SCALE; the owner gets the
\* penalty only.  The same holds when the liquidation drains the pool.
C9_SoleHolderGetsDistributableUpToRounding ==
    [][\A d \in Users, c \in Assets :
          (LiquidateStep(c) /\ SoleHolder(d) /\ Cardinality(Removed(c)) = 1)
            => LET got == ViewAfter(d, c) - View(d, c)
                   D == DistributableSum(c)
                   S == stability_pool_total_shares
               IN /\ got <= D
                  /\ got >= D - 1 - (S \div REWARD_SCALE)
                  /\ ((D * REWARD_SCALE) % S = 0) => got = D
                  /\ OwnerReward(collateral_rewards', c)
                        - OwnerReward(collateral_rewards, c) = PenaltySum(c)]_vars

\* bob alone held 3 shares when alice's trove (distributable 1) was
\* liquidated: the accumulator got floor(1000 / 3) and bob's reward is 0
C9_Witness ==
    \E c \in Assets :
        /\ DOMAIN stability_pool_deposits = {"bob"}
        /\ stability_pool_deposits["bob"].shares = 3
        /\ trove_key("alice", c) \notin DOMAIN troves
        /\ MapGet(reward_per_share, c, 0) = REWARD_SCALE \div 3
        /\ View("bob", c) = 0
        /\ OwnerReward(collateral_rewards, c) = 1

\* C10: a liquidation step removes every trove of the list that is under the
\* minimum ratio and leaves the other troves as they were; total_debt of the
\* asset, stability_pool_total_nusd and the stablecoin supply each drop by
\* exactly the debt of the removed troves.
C10_LiquidationRemovesTroveAndDebt ==
    [][\A u \in Users, c \in Assets, owners \in OwnerLists :
          Liquidate(u, c, owners) =>
             /\ Removed(c) = Liquidatable(c, owners)
             /\ \A k \in DOMAIN troves' : k \in DOMAIN troves /\ troves'[k] = troves[k]
             /\ MapGet(total_debt', c, 0) = MapGet(total_debt, c, 0) - DebtSum(c)
             /\ stability_pool_total_nusd' = stability_pool_total_nusd - DebtSum(c)
             /\ nusd'.total_supply = nusd.total_supply - DebtSum(c)]_vars

\* bob's trove (debt 3) was liquidated: alice's debt of 1 is all that is left
\* of the 4 that were owed and in circulation
C10_Witness ==
    \E c \in Assets :
        /\ c \in DOMAIN reward_per_share
        /\ DOMAIN troves = {trove_key("alice", c)}
        /\ troves[trove_key("alice", c)] = [collateral_amount |-> 2, debt_amount |-> 1]
        /\ MapGet(total_debt, c, 0) = 1
        /\ nusd.total_supply = 1
        /\ stability_pool_total_nusd = 0

\* ---- liquidate as a call on the current state
\* the listed troves under the minimum ratio whose debt the pool cannot pay
Uncovered(c, owners) ==
    {k \in Liquidatable(c, owners) : troves[k].debt_amount > stability_pool_total_nusd}

\* C11: a liquidate call whose list holds an unsafe trove with more debt than
\* stability_pool_total_nusd does not fail: the call returns, and that trove
\* is still stored after it.
C11_UncoveredTroveIsSkipped ==
    \A u \in Users, c \in Assets, owners \in OwnerLists :
        Uncovered(c, owners) # {} =>
            \A r \in { liquidate(Self, u, c, owners) } :
                /\ ~r.panic
                /\ Uncovered(c, owners) \subseteq DOMAIN r.troves

\* the listed owners that liquidate passes over: no trove, no debt, or a ratio
\* at the current price that is not under the minimum
Skipped(c, owners) ==
    {trove_key(owners[i], c) : i \in DOMAIN owners} \ Liquidatable(c, owners)

\* the troves that are stored now and are not in the result r of a call
RemovedBy(r) == DOMAIN troves \ DOMAIN r.troves

\* C12: a liquidate call that returns leaves the trove of every listed owner
\* it skips (no trove, zero debt, ratio >= MCR) as it was and removes none of
\* them; total_debt, the pool's stablecoin and the owner's penalty balance
\* move by the removed troves only, no other claimable balance moves, and
\* when every listed owner is skipped the call changes nothing at all; the
\* returned value is the number of troves removed.
C12_SkippedOwnersUntouchedAndCounted ==
    \A u \in Users, c \in Assets, owners \in OwnerLists :
        \A r \in { liquidate(Self, u, c, owners) } :
            ~r.panic =>
               /\ r.ret = Cardinality(RemovedBy(r))
               /\ RemovedBy(r) \subseteq Liquidatable(c, owners)
               /\ \A k \in Skipped(c, owners) :
                     /\ k \in DOMAIN troves <=> k \in DOMAIN r.troves
                     /\ k \in DOMAIN troves => r.troves[k] = troves[k]
               /\ MapGet(r.total_debt, c, 0) = MapGet(total_debt, c, 0)
                     - SumOver([k \in DOMAIN troves |-> troves[k].debt_amount],
                               RemovedBy(r))
               /\ r.stability_pool_total_nusd = stability_pool_total_nusd
                     - SumOver([k \in DOMAIN troves |-> troves[k].debt_amount],
                               RemovedBy(r))
               /\ OwnerReward(r.collateral_rewards, c) =
                     OwnerReward(collateral_rewards, c)
                     + SumOver([k \in DOMAIN troves |-> Penalty(k)], RemovedBy(r))
               /\ \A a \in Users :
                     MapGet(r.collateral_rewards, CollateralRewardKey(a, c), 0)
                        = MapGet(collateral_rewards, CollateralRewardKey(a, c), 0)
               /\ Liquidatable(c, owners) = {} =>
                     /\ r.ret = 0
                     /\ r.troves = troves
                     /\ r.total_debt = total_debt
                     /\ r.stability_pool_total_nusd = stability_pool_total_nusd
                     /\ r.stability_pool_total_shares = stability_pool_total_shares
                     /\ r.stability_pool_epoch = stability_pool_epoch
                     /\ r.stability_pool_deposits = stability_pool_deposits
                     /\ r.reward_per_share = reward_per_share
                     /\ r.collateral_rewards = collateral_rewards
                     /\ r.nusd = nusd

\* a list of two owners with debt, of which the call removes one and skips the
\* other because its ratio is not under the minimum
C12_Witness ==
    \E u \in Users, c \in Assets, owners \in OwnerLists :
        \E r \in { liquidate(Self, u, c, owners) } :
            /\ ~r.panic
            /\ r.ret = 1
            /\ \E k \in Skipped(c, owners) :
                  /\ k \in DOMAIN r.troves
                  /\ troves[k].debt_amount > 0

\* the list without the later occurrences of an owner
RECURSIVE Dedup(_)
Dedup(owners) ==
    IF owners = << >> THEN << >>
    ELSE LET front == Dedup(SubSeq(owners, 1, Len(owners) - 1))
             last == owners[Len(owners)]
         IN IF \E i \in DOMAIN front : front[i] = last THEN front
            ELSE Append(front, last)

\* C13: a liquidate call on a list that names an owner more than once ends in
\* the same state and returns the same count as the call on the list with the
\* later occurrences left out: the trove is counted once, its debt is burned
\* from the pool once and its collateral is credited once.
C13_RepeatedOwnerLiquidatedOnce ==
    \A u \in Users, c \in Assets, owners \in OwnerLists :
        \A r \in { liquidate(Self, u, c, owners) } :
            /\ r = liquidate(Self, u, c, Dedup(owners))
            /\ ~r.panic =>
                  /\ r.ret <= Cardinality({owners[i] : i \in DOMAIN owners})
                  /\ r.ret = Cardinality(RemovedBy(r))

\* an owner listed twice whose trove is liquidated, with enough left in the
\* pool afterwards to pay that trove's debt a second time
C13_Witness ==
    \E u \in Users, c \in Assets, owners \in OwnerLists :
        \E r \in { liquidate(Self, u, c, owners) } :
            /\ Len(owners) > 1
            /\ owners[1] = owners[2]
            /\ ~r.panic
            /\ r.ret = 1
            /\ r.stability_pool_total_nusd >= troves[trove_key(owners[1], c)].debt_amount

\* ---- redemption
\* collateral paid out for `amount` at the stored price of asset c
CollateralOut(c, amount) ==
    (amount * decimals_factor(price_feeds[c].decimals)) \div price_feeds[c].price

\* the redemptions whose requires are met: the trove owes the amount and
\* holds the collateral it pays out, and the redeemer holds the amount
Redeemable(u, c, o, amount) ==
    /\ trove_key(o, c) \in DOMAIN troves
    /\ troves[trove_key(o, c)].debt_amount >= amount
    /\ CollateralOut(c, amount) > 0
    /\ troves[trove_key(o, c)].collateral_amount >= CollateralOut(c, amount)
    /\ MapGet(nusd.accounts, u, 0) >= amount

\* C14: a redeem that succeeds pays out collateral_out = floor(amount *
\* 10^decimals / price): the trove's debt drops by amount and its collateral by
\* collateral_out (the trove is removed when both reach zero), total_debt of
\* the asset and the redeemer's stablecoin balance drop by amount, the
\* redeemer's stored claimable balance rises by collateral_out and no
\* collateral leaves the contract; and a redeem whose requires are met
\* succeeds whatever the trove's ratio is.
C14_RedeemPaysCollateralOut ==
    /\ [](\A u \in Users, o \in Users, c \in Assets, amt \in Amounts :
             Redeemable(u, c, o, amt) => ~redeem(Self, u, c, o, amt).panic)
    /\ [][\A u \in Users, o \in Users, c \in Assets, amt \in Amounts :
             Redeem(u, c, o, amt) =>
                LET k == trove_key(o, c)
                    out == CollateralOut(c, amt)
                    debt == troves[k].debt_amount - amt
                    collateral == troves[k].collateral_amount - out
                IN /\ Redeemable(u, c, o, amt)
                   /\ IF debt = 0 /\ collateral = 0
                      THEN k \notin DOMAIN troves'
                      ELSE /\ k \in DOMAIN troves'
                           /\ troves'[k] = [collateral_amount |-> collateral,
                                            debt_amount |-> debt]
                   /\ \A k2 \in DOMAIN troves \ {k} :
                         k2 \in DOMAIN troves' /\ troves'[k2] = troves[k2]
                   /\ MapGet(total_debt', c, 0) = MapGet(total_debt, c, 0) - amt
                   /\ nusd'.accounts[u] = nusd.accounts[u] - amt
                   /\ nusd'.total_supply = nusd.total_supply - amt
                   /\ MapGet(collateral_rewards', CollateralRewardKey(u, c), 0) =
                         MapGet(collateral_rewards, CollateralRewardKey(u, c), 0) + out
                   /\ custody' = custody]_vars

\* a trove of 2 collateral and 2 debt, under the minimum ratio at price 0.4,
\* was redeemed by 1: it keeps 1 debt and no collateral, and the redeemer is
\* owed the 2 collateral
C14_Witness ==
    \E c \in Assets, o \in Users, u \in Users :
        /\ price_feeds[c] = [price |-> 4, decimals |-> 1]
        /\ trove_key(o, c) \in DOMAIN troves
        /\ troves[trove_key(o, c)] = [collateral_amount |-> 0, debt_amount |-> 1]
        /\ MapGet(collateral_rewards, CollateralRewardKey(u, c), 0) = 2
        /\ MapGet(total_debt, c, 0) = 3

\* ---- epochs
\* C15: stability_pool_epoch never decreases.  A liquidation that brings
\* stability_pool_total_nusd to zero sets stability_pool_total_shares to 0 and
\* adds exactly 1 to the epoch in the same step, and get_stability_pool_deposit
\* is then 0 for every account that has a deposit record; a liquidation that
\* leaves stablecoin in the pool changes neither the epoch nor the total
\* shares.  In every state the view is 0 for a record of an earlier epoch, and
\* no record is of a later epoch than the pool's.
C15_EpochMonotoneAndDrain ==
    /\ [](\A a \in DOMAIN stability_pool_deposits :
             /\ stability_pool_deposits[a].epoch <= stability_pool_epoch
             /\ stability_pool_deposits[a].epoch < stability_pool_epoch =>
                   get_stability_pool_deposit(a) = 0)
    /\ [][/\ stability_pool_epoch' >= stability_pool_epoch
          /\ \A c \in Assets :
                LiquidateStep(c) =>
                   IF stability_pool_total_nusd' = 0
                   THEN /\ stability_pool_total_shares' = 0
                        /\ stability_pool_epoch' = stability_pool_epoch + 1
                        /\ \A a \in DOMAIN stability_pool_deposits :
                              /\ a \in DOMAIN stability_pool_deposits'
                              /\ stability_pool_deposits'[a].epoch < stability_pool_epoch'
                              /\ get_stability_pool_deposit(a)' = 0
                   ELSE /\ stability_pool_epoch' = stability_pool_epoch
                        /\ stability_pool_total_shares' = stability_pool_total_shares]_vars

\* the first draining liquidation has happened: the pool is in epoch 1 with no
\* shares, and a depositor's record still carries its shares of epoch 0
C15_Witness ==
    /\ stability_pool_epoch = 1
    /\ stability_pool_total_shares = 0
    /\ stability_pool_total_nusd = 0
    /\ \E a \in DOMAIN stability_pool_deposits :
          /\ stability_pool_deposits[a].epoch = 0
          /\ stability_pool_deposits[a].shares > 0

\* ---- settlement
\* C16: settle_stability_rewards run for an account on the state that
\* settle_stability_rewards for that account has just produced changes
\* nothing: claimable balances, the deposit records (shares, reward_debt,
\* epoch) and every other field are those of the first run.
C16_SettleIsIdempotent ==
    \A a \in Accounts :
        \A s1 \in { settle_stability_rewards(Self, a) } :
            ~s1.panic => settle_stability_rewards(s1, a) = s1

\* a record of an earlier epoch that still carries shares and whose settlement
\* credits a pending reward
C16_Witness ==
    \E a \in Accounts, c \in Assets :
        \E s1 \in { settle_stability_rewards(Self, a) } :
            /\ Stale(a)
            /\ ~s1.panic
            /\ MapGet(s1.collateral_rewards, CollateralRewardKey(a, c), 0)
                  > MapGet(collateral_rewards, CollateralRewardKey(a, c), 0)
            /\ s1.stability_pool_deposits[a].shares = 0
            /\ s1.stability_pool_deposits[a].epoch = stability_pool_epoch

\* C17: for every account and asset, get_claimable_collateral_reward returns
\* the stored claimable balance the account has right after
\* settle_stability_rewards runs for it.
C17_ViewIsBalanceAfterSettle ==
    \A a \in Accounts, c \in Assets :
        \A s1 \in { settle_stability_rewards(Self, a) } :
            /\ ~s1.panic
            /\ View(a, c) = MapGet(s1.collateral_rewards, CollateralRewardKey(a, c), 0)

\* a record of the current epoch with shares and a reward that is pending:
\* the view is above the stored balance, and settling stores the difference
C17_Witness ==
    \E a \in Users, c \in Assets :
        /\ EffectiveShares(a) > 0
        /\ View(a, c) > MapGet(collateral_rewards, CollateralRewardKey(a, c), 0)
        /\ MapGet(settle_stability_rewards(Self, a).collateral_rewards,
                  CollateralRewardKey(a, c), 0) = View(a, c)

\* ---- withdrawing from the stability pool
\* what the caller's shares are worth: floor(shares * total_nusd / total_shares)
Available(a) ==
    IF stability_pool_total_shares = 0 THEN 0
    ELSE (EffectiveShares(a) * stability_pool_total_nusd) \div stability_pool_total_shares

\* the amount a withdrawal moves: the amount given, or all that is available
Requested(a, amount) == IF amount = None THEN Available(a) ELSE amount

\* C18: a withdraw_from_stability_pool that succeeds moves an amount with
\* 0 < amount <= floor(caller shares * stability_pool_total_nusd /
\* stability_pool_total_shares): the caller's stablecoin balance rises by
\* amount, stability_pool_total_nusd falls by amount, and the caller's shares
\* and stability_pool_total_shares both fall by floor(amount * total_shares /
\* total_nusd).
C18_WithdrawMovesAmountAndShares ==
    [][\A u \in Users, amt \in {None} \cup Amounts :
          WithdrawFromStabilityPool(u, amt) =>
             LET requested == Requested(u, amt)
                 burned == (requested * stability_pool_total_shares)
                              \div stability_pool_total_nusd
             IN /\ stability_pool_total_nusd > 0
                /\ 0 < requested
                /\ requested <= Available(u)
                /\ nusd'.accounts[u] = nusd.accounts[u] + requested
                /\ nusd'.accounts[CurrentAccountId] =
                      nusd.accounts[CurrentAccountId] - requested
                /\ stability_pool_total_nusd' = stability_pool_total_nusd - requested
                /\ stability_pool_total_shares' = stability_pool_total_shares - burned
                /\ stability_pool_deposits'[u].shares = EffectiveShares(u) - burned
                /\ stability_pool_deposits'[u].epoch = stability_pool_epoch]_vars

\* alice and bob had pooled 1 and 3 when alice's trove (debt 1, distributable
\* 1 over 4 shares) was liquidated; bob then withdrew 1 of the 3 left in the
\* pool at the price of 3 stablecoin for 4 shares, which burned 1 share
C18_Witness ==
    \E c \in Assets :
        /\ MapGet(reward_per_share, c, 0) = 250
        /\ stability_pool_epoch = 0
        /\ stability_pool_total_shares = 3
        /\ stability_pool_total_nusd = 2
        /\ nusd.accounts["bob"] = 1
        /\ EffectiveShares("bob") = 2

\* C19: after a withdraw_from_stability_pool that was given no amount and
\* succeeded, get_stability_pool_deposit of the caller is 0.
C19_FullWithdrawLeavesNoDeposit ==
    [][\A u \in Users :
          WithdrawFromStabilityPool(u, None) => get_stability_pool_deposit(u)' = 0]_vars

\* ---- deposit and withdrawal round trip
\* a call of deposit_to_stability_pool or withdraw_from_stability_pool by u
PoolStep(u) ==
    \/ \E amt \in Amounts : DepositToStabilityPool(u, amt)
    \/ \E amt \in {None} \cup Amounts : WithdrawFromStabilityPool(u, amt)

\* what an account holds: its stablecoin balance plus the value of its deposit
Holding(a) == nusd.accounts[a] + get_stability_pool_deposit(a)

DepositValueSum ==
    SumOver([a \in Accounts |-> get_stability_pool_deposit(a)], Accounts)

\* the accounts that hold shares of the current epoch
Holders == {a \in Accounts : EffectiveShares(a) > 0}

\* C21, as stated: in every state the sum over all accounts of
\* get_stability_pool_deposit equals stability_pool_total_nusd.
C21_DepositValuesSumToPool ==
    DepositValueSum = stability_pool_total_nusd

\* C21, amended: the sum never exceeds stability_pool_total_nusd and falls
\* short of it by less than the number of accounts that hold shares (each
\* view is rounded down); the two are equal when total_shares = total_nusd,
\* and the pool holds nothing when nobody holds shares.
C21_DepositValuesSumToPoolUpToRounding ==
    /\ DepositValueSum <= stability_pool_total_nusd
    /\ Holders = {} => stability_pool_total_nusd = 0
    /\ Holders # {} => stability_pool_total_nusd - DepositValueSum < Cardinality(Holders)
    /\ stability_pool_total_shares = stability_pool_total_nusd =>
          DepositValueSum = stability_pool_total_nusd
    /\ SumOver([a \in Accounts |-> EffectiveShares(a)], Accounts)
          = stability_pool_total_shares

\* two accounts hold the 5 shares of a pool of 3 stablecoin: their deposits
\* are worth floor(9/5) + floor(6/5) = 2
C21_Witness ==
    /\ stability_pool_total_shares = 5
    /\ stability_pool_total_nusd = 3
    /\ Cardinality(Holders) = 2
    /\ DepositValueSum = 2

\* ---- claiming collateral
\* the stored claimable balance of a for asset c once a's rewards are settled
SettledBalance(a, c) ==
    MapGet(settle_stability_rewards(Self, a).collateral_rewards,
           CollateralRewardKey(a, c), 0)

\* the amounts a claim can name: none, zero, or a positive amount
ClaimAmounts == {None} \cup (0..MaxAmount)

\* C22: claim_collateral_reward is rejected when the caller's settled
\* claimable balance is 0, when the amount given is 0, or when it is above the
\* balance; every other call succeeds, lowers the balance by the amount
\* claimed (the whole balance when none is given), deletes the entry when
\* nothing is left, changes no other balance and requests exactly one
\* transfer of the claimed amount of the asset to the caller.
C22_ClaimCollateralReward ==
    \A a \in Accounts, c \in Assets :
        \A settled \in { settle_stability_rewards(Self, a).collateral_rewards } :
            \A amt \in ClaimAmounts :
                \A r \in { claim_collateral_reward(Self, a, c, amt) } :
                    LET key == CollateralRewardKey(a, c)
                        balance == MapGet(settled, key, 0)
                        to_claim == IF amt = None THEN balance ELSE amt
                    IN IF balance = 0 \/ to_claim = 0 \/ to_claim > balance
                       THEN r.panic
                       ELSE /\ ~r.panic
                            /\ MapGet(r.collateral_rewards, key, 0) = balance - to_claim
                            /\ key \in DOMAIN r.collateral_rewards <=>
                                  balance - to_claim > 0
                            /\ \A k \in DOMAIN settled \ {key} :
                                  /\ k \in DOMAIN r.collateral_rewards
                                  /\ r.collateral_rewards[k] = settled[k]
                            /\ r.transfers =
                                  << [token |-> c, to |-> a, amount |-> to_claim] >>

\* an account whose balance, part of it pending until the call settles it, is
\* 2 or more: a claim of 1 leaves the rest stored, a claim with no amount
\* deletes the entry, and a claim of more than the balance is rejected
C22_Witness ==
    \E a \in Users, c \in Assets :
        /\ SettledBalance(a, c) = 2
        /\ MapGet(collateral_rewards, CollateralRewardKey(a, c), 0) < 2
        /\ ~claim_collateral_reward(Self, a, c, 1).panic
        /\ CollateralRewardKey(a, c) \notin
              DOMAIN claim_collateral_reward(Self, a, c, None).collateral_rewards
        /\ claim_collateral_reward(Self, a, c, 3).panic

\* ---- transfers and their outcome
\* the fields of the contract in a call's record
Core(s) ==
    << s.configs, s.troves, s.total_debt, s.price_feeds, s.stability_pool_deposits,
       s.collateral_rewards, s.reward_per_share, s.stability_pool_total_shares,
       s.stability_pool_total_nusd, s.stability_pool_epoch, s.nusd >>

\* C23: claim_collateral_reward, withdraw_collateral and close_trove have made
\* their change when the transfer is requested, and the transfer's outcome
\* does not touch it: whether the collateral is delivered or not, the
\* claimable balance is lower by the amount claimed, the trove holds the
\* amount less (or is removed by close_trove), and debts, totals and other
\* balances are what the call left; only the collateral held by the contract
\* depends on the outcome.  on_swap_complete, run with either result of the
\* swap, changes no field and requests no transfer.
C23_TransferOutcomeChangesNoState ==
    /\ [](\A a \in Accounts, c \in Assets, amt \in Amounts, ok \in BOOLEAN :
             \A r \in { on_swap_complete(Self, CurrentAccountId, a, c, amt, ok) } :
                /\ ~r.panic
                /\ Core(r) = Core(Self)
                /\ r.transfers = << >>
                /\ r.ret = IF ok THEN 1 ELSE 0)
    /\ [][\A d \in BOOLEAN, c \in Assets :
            /\ \A a \in Accounts, amt \in {None} \cup Amounts :
                  ClaimCollateralRewardOutcome(a, c, amt, d) =>
                     LET to_claim == IF amt = None THEN SettledBalance(a, c) ELSE amt
                     IN /\ MapGet(collateral_rewards', CollateralRewardKey(a, c), 0)
                              = SettledBalance(a, c) - to_claim
                        /\ troves' = troves
                        /\ total_debt' = total_debt
                        /\ nusd' = nusd
                        /\ custody'[c] = IF d /\ custody[c] >= to_claim
                                         THEN custody[c] - to_claim ELSE custody[c]
            /\ \A u \in Users, amt \in Amounts :
                  WithdrawCollateralOutcome(u, c, amt, d) =>
                     LET k == trove_key(u, c)
                     IN /\ k \in DOMAIN troves'
                        /\ troves'[k] = [troves[k] EXCEPT !.collateral_amount = @ - amt]
                        /\ total_debt' = total_debt
                        /\ collateral_rewards' = collateral_rewards
                        /\ nusd' = nusd
                        /\ custody'[c] = IF d /\ custody[c] >= amt
                                         THEN custody[c] - amt ELSE custody[c]
            /\ \A u \in Users :
                  CloseTroveOutcome(u, c, d) =>
                     LET k == trove_key(u, c)
                     IN /\ k \notin DOMAIN troves'
                        /\ total_debt' = total_debt
                        /\ collateral_rewards' = collateral_rewards
                        /\ nusd' = nusd
                        /\ custody'[c] =
                              IF d /\ custody[c] >= troves[k].collateral_amount
                              THEN custody[c] - troves[k].collateral_amount
                              ELSE custody[c]]_vars

\* a transfer has failed: no liquidation has left a reward pending, and the
\* contract holds collateral that no trove holds and no claimable balance is
\* owed
C23_Witness ==
    \E c \in Assets :
        /\ reward_per_share = EmptyMap
        /\ custody[c] > TroveCollateral(troves, c) + StoredRewards(collateral_rewards, c)

\* ---- rejected calls
\* the call with record r was rejected and has left every field as it was and
\* no transfer requested
Rejected(r) ==
    /\ r.panic
    /\ Core(CallOutcome(Self, r)) = Core(Self)
    /\ CallOutcome(Self, r).transfers = << >>

\* C24: a call that is rejected leaves troves, total debt, pool totals, epoch,
\* deposit records, accumulator, claimable balances, stablecoin balances and
\* supply as they were.  repay of more than the trove's debt, close_trove of a
\* trove without collateral or with debt, deposit_to_stability_pool of more
\* than the caller's balance and redeem with a precondition not met are
\* rejected; a liquidate call that fails keeps none of the liquidations it
\* had processed.
C24_RejectedCallsChangeNothing ==
    \A u \in Users, c \in Assets :
       LET k == trove_key(u, c)
       IN /\ \A amt \in 0..MaxAmount :
                /\ \A r \in { repay(Self, u, c, amt) } :
                      /\ r.panic => Rejected(r)
                      /\ (k \notin DOMAIN troves \/ amt > troves[k].debt_amount
                             \/ amt = 0) => Rejected(r)
                /\ \A r \in { deposit_to_stability_pool(Self, u, amt) } :
                      /\ r.panic => Rejected(r)
                      /\ (amt = 0 \/ amt > MapGet(nusd.accounts, u, 0)) => Rejected(r)
                /\ \A o \in Users :
                      \A r \in { redeem(Self, u, c, o, amt) } :
                         /\ r.panic => Rejected(r)
                         /\ ~Redeemable(u, c, o, amt) => Rejected(r)
          /\ \A r \in { close_trove(Self, u, c) } :
                /\ r.panic => Rejected(r)
                /\ (k \notin DOMAIN troves \/ troves[k].debt_amount > 0
                       \/ troves[k].collateral_amount = 0) => Rejected(r)
          /\ \A owners \in OwnerLists :
                \A r \in { liquidate(Self, u, c, owners) } :
                   /\ r.panic => Rejected(r)
                   /\ Uncovered(c, owners) # {} => Rejected(r)

\* a liquidate call that removes the first trove of its list and fails at the
\* second, whose debt the pool no longer covers
C24_Witness ==
    \E u \in Users, c \in Assets, owners \in OwnerLists :
        \E r \in { liquidate(Self, u, c, owners) } :
            /\ r.panic
            /\ r.ret = 1
            /\ DOMAIN r.troves # DOMAIN troves
            /\ Rejected(r)

\* ---- trove records
\* C25: no stored trove has collateral_amount = 0 and debt_amount = 0.
C25_NoEmptyTroveStored ==
    \A k \in DOMAIN troves :
        ~(troves[k].collateral_amount = 0 /\ troves[k].debt_amount = 0)

\* ---- borrow and repay
\* C26: a borrow that succeeds adds the amount to the caller's trove debt, to
\* total_debt of the asset, to the caller's stablecoin balance and to the
\* stablecoin supply, and leaves the trove's collateral as it was; a repay
\* that succeeds takes the amount from each of them; a repay of more than the
\* trove's debt is rejected.
C26_BorrowAndRepayMoveAmount ==
    /\ [](\A u \in Users, c \in Assets, amt \in Amounts :
             (trove_key(u, c) \in DOMAIN troves
                 /\ amt > troves[trove_key(u, c)].debt_amount)
             => repay(Self, u, c, amt).panic)
    /\ [][\A u \in Users, c \in Assets, amt \in Amounts :
             LET k == trove_key(u, c)
             IN /\ Borrow(u, c, amt) =>
                      /\ troves'[k].debt_amount = troves[k].debt_amount + amt
                      /\ troves'[k].collateral_amount = troves[k].collateral_amount
                      /\ MapGet(total_debt', c, 0) = MapGet(total_debt, c, 0) + amt
                      /\ nusd'.accounts[u] = nusd.accounts[u] + amt
                      /\ nusd'.total_supply = nusd.total_supply + amt
                /\ Repay(u, c, amt) =>
                      /\ troves'[k].debt_amount = troves[k].debt_amount - amt
                      /\ troves'[k].collateral_amount = troves[k].collateral_amount
                      /\ MapGet(total_debt', c, 0) = MapGet(total_debt, c, 0) - amt
                      /\ nusd'.accounts[u] = nusd.accounts[u] - amt
                      /\ nusd'.total_supply = nusd.total_supply - amt]_vars

\* a trove that has borrowed: its debt is the asset's total_debt, the owner's
\* stablecoin balance and the whole stablecoin supply
C26_Witness ==
    \E u \in Users, c \in Assets :
        /\ trove_key(u, c) \in DOMAIN troves
        /\ troves[trove_key(u, c)].debt_amount > 0
        /\ troves[trove_key(u, c)].collateral_amount = custody[c]
        /\ MapGet(total_debt, c, 0) = troves[trove_key(u, c)].debt_amount
        /\ u \in DOMAIN nusd.accounts
        /\ nusd.accounts[u] = troves[trove_key(u, c)].debt_amount
        /\ nusd.total_supply = troves[trove_key(u, c)].debt_amount

\* ---- collateral_ratio
\* C27: for the collateral of a trove, the price of its asset and a debt (the
\* trove's own, or the one a borrow would leave), collateral_ratio is U128_MAX
\* when the debt is 0 and floor(floor(collateral * price / 10^decimals) *
\* 10000 / debt) otherwise; when collateral * price or the value * 10000 does
\* not fit the word it panics, and the borrow or withdraw_collateral that
\* evaluates it is rejected.
C27_CollateralRatio ==
    \A k \in DOMAIN troves :
        k[2] \in DOMAIN price_feeds =>
        LET feed == price_feeds[k[2]]
            collateral == troves[k].collateral_amount
            product == collateral * feed.price
            value == product \div decimals_factor(feed.decimals)
            fits == product <= U128_MAX /\ value * BPS_DENOMINATOR <= U128_MAX
        IN /\ ~collateral_ratio_panics(collateral, 0, feed)
           /\ collateral_ratio(collateral, 0, feed) = U128_MAX
           /\ \A debt \in {troves[k].debt_amount + amt : amt \in 0..MaxAmount} \ {0} :
                 /\ collateral_ratio_panics(collateral, debt, feed) <=> ~fits
                 /\ fits => collateral_ratio(collateral, debt, feed)
                               = (value * BPS_DENOMINATOR) \div debt
           /\ \A amt \in Amounts :
                 /\ ~fits => borrow(Self, k[1], k[2], amt).panic
                 /\ (troves[k].debt_amount > 0 /\ amt <= collateral
                       /\ collateral_ratio_panics(collateral - amt,
                                                  troves[k].debt_amount, feed))
                    => withdraw_collateral(Self, k[1], k[2], amt, "").panic

\* a trove that has borrowed an amount and whose collateral, after a price
\* submission, has a value that no longer fits: the first product overflows
C27_Witness ==
    \E k \in DOMAIN troves :
        /\ troves[k].debt_amount \notin RatioDebts
        /\ troves[k].debt_amount > 0
        /\ k[2] \in DOMAIN price_feeds
        /\ troves[k].collateral_amount * price_feeds[k[2]].price > U128_MAX
        /\ collateral_ratio_panics(troves[k].collateral_amount, troves[k].debt_amount,
                                   price_feeds[k[2]])

\* ---- the liquidation scenario
ScenarioTrove(k) ==
    /\ k \in DOMAIN troves
    /\ troves[k].collateral_amount = ScenarioCollateral
    /\ troves[k].debt_amount = ScenarioDebt

ScenarioRatio(k) ==
    collateral_ratio(troves[k].collateral_amount, troves[k].debt_amount,
                     price_feeds[k[2]])

\* what the scenario says of a trove of collateral 10000 and debt 4000, given
\* the ratio it names for the price 200.00
ScenarioHolds(ratio_at_high_price) ==
    \A k \in Users \X Assets :
        ScenarioTrove(k) =>
        \A r \in { liquidate(Self, k[1], k[2], << k[1] >>) } :
            /\ ~collateral_ratio_panics(troves[k].collateral_amount,
                                        troves[k].debt_amount, price_feeds[k[2]])
            /\ price_feeds[k[2]] = ScenarioHighPrice =>
                  /\ ScenarioRatio(k) = ratio_at_high_price
                  /\ ScenarioRatio(k) >= configs[k[2]].min_collateral_ratio_bps
                  /\ ~r.panic
                  /\ r.ret = 0
                  /\ Core(r) = Core(Self)
            /\ price_feeds[k[2]] = ScenarioLowPrice =>
                  /\ ScenarioRatio(k) < configs[k[2]].min_collateral_ratio_bps
                  /\ stability_pool_total_nusd >= ScenarioDebt =>
                        /\ ~r.panic
                        /\ r.ret = 1
                        /\ k \notin DOMAIN r.troves

\* C28 as stated: for a trove with collateral 10000 and debt 4000 under a 1300
\* bps MCR the ratio at price=20000, decimals=2 is 500000 bps and liquidate
\* leaves the trove; at price=5, decimals=2 the ratio is below the MCR and
\* liquidate, with a pool covering the debt, removes the trove.
C28_ScenarioRatio500000 == ScenarioHolds(500000)

\* C28, amended: the same with the ratio at price=20000, decimals=2 being
\* 5000000 bps (10000 * 20000 / 100 * 10000 / 4000).
C28_ScenarioRatio5000000 == ScenarioHolds(5000000)

\* the price has dropped to 0.05 and one of the two troves has been liquidated
\* out of a pool that covered its debt; the other still stands as opened
C28_Witness ==
    \E k \in Users \X Assets, j \in Users \X Assets :
        /\ k \notin DOMAIN troves
        /\ ScenarioTrove(j)
        /\ price_feeds[j[2]] = ScenarioLowPrice
        /\ total_debt[j[2]] = ScenarioDebt
        /\ nusd.total_supply = ScenarioDebt

\* ---- health of a trove between price submissions
\* the trove owes something and its ratio at the asset's price is at least
\* the asset's min_collateral_ratio_bps, in the state made of the given maps
Healthy(trove_map, feeds, config_map, k) ==
    /\ k \in DOMAIN trove_map
    /\ k[2] \in DOMAIN feeds
    /\ k[2] \in DOMAIN config_map
    /\ trove_map[k].debt_amount > 0
    /\ ~collateral_ratio_panics(trove_map[k].collateral_amount,
                                trove_map[k].debt_amount, feeds[k[2]])
    /\ collateral_ratio(trove_map[k].collateral_amount, trove_map[k].debt_amount,
                        feeds[k[2]])
          >= config_map[k[2]].min_collateral_ratio_bps

\* C29: a step that leaves the price feed and the collateral config of an
\* asset unchanged never takes a trove with debt > 0 and ratio >= MCR to a
\* trove with debt > 0 and ratio < MCR.
C29_OnlyPriceMakesTroveUnhealthy ==
    [][(price_feeds' = price_feeds /\ configs' = configs) =>
          \A k \in DOMAIN troves :
              (Healthy(troves, price_feeds, configs, k)
                 /\ k \in DOMAIN troves' /\ troves'[k].debt_amount > 0)
              => Healthy(troves', price_feeds', configs', k)]_vars

\* ---- share price through a liquidation
\* the debt of the troves of the asset that the step removes
LiquidatedDebt(c) ==
    SumOver([k \in DOMAIN troves |-> troves[k].debt_amount],
            {k \in DOMAIN troves \ DOMAIN troves' : k[2] = c})

\* C30: a liquidation takes the debt of the troves it removes out of
\* stability_pool_total_nusd and changes no deposit record; when it leaves
\* nUSD in the pool it leaves stability_pool_total_shares as it was; the share
\* price total_nusd / total_shares after it is at most the one before it.
C30_LiquidationDilutesShares ==
    [][\A c \in Assets :
          LiquidateStep(c) =>
             /\ LiquidatedDebt(c) > 0
             /\ stability_pool_total_nusd'
                   = stability_pool_total_nusd - LiquidatedDebt(c)
             /\ stability_pool_deposits' = stability_pool_deposits
             /\ stability_pool_total_nusd' > 0 =>
                   stability_pool_total_shares' = stability_pool_total_shares
             /\ stability_pool_total_nusd' * stability_pool_total_shares
                   <= stability_pool_total_nusd * stability_pool_total_shares']_vars

\* a pool after a liquidation that did not drain it: the epoch has not
\* moved, a trove is gone, and the shares stand for fewer nUSD than were paid
\* for them
C30_Witness ==
    /\ stability_pool_epoch = 0
    /\ \E k \in Users \X Assets : k \notin DOMAIN troves
    /\ stability_pool_total_nusd > 0
    /\ stability_pool_total_shares > stability_pool_total_nusd
    /\ \E a \in DOMAIN stability_pool_deposits :
          stability_pool_deposits[a].shares = stability_pool_total_shares

\* ---- stored parameters
ValidConfig(config) ==
    /\ config.min_collateral_ratio_bps >= 1100
    /\ config.recovery_collateral_ratio_bps >= config.min_collateral_ratio_bps

ValidFeed(feed) == feed.decimals <= 18 /\ feed.price > 0

Record(deposits, a) ==
    IF a \in DOMAIN deposits THEN deposits[a]
    ELSE [shares |-> None, reward_debt |-> EmptyMap, epoch |-> None]

\* the call went through and left every deposit record as it is
KeepsRecords(r) == ~r.panic => r.stability_pool_deposits = stability_pool_deposits

\* the call went through and left the records of all other accounts as they are
KeepsOtherRecords(r, caller) ==
    ~r.panic => \A a \in Callers \ {caller} :
                   Record(r.stability_pool_deposits, a)
                      = Record(stability_pool_deposits, a)

\* C32: borrow, repay, a deposit of collateral, withdraw_collateral,
\* close_trove, redeem and liquidate leave every StabilityDeposit record
\* unchanged; deposit_to_stability_pool, withdraw_from_stability_pool and
\* claim_collateral_reward change no record but the caller's; and a step that
\* changes a record is one of these by the record's account.
C32_RecordsChangeByTheirAccount ==
    /\ [](\A c \in Assets :
             /\ \A u \in Users :
                   /\ \A amt \in 0..MaxAmount :
                         /\ KeepsRecords(borrow(Self, u, c, amt))
                         /\ KeepsRecords(repay(Self, u, c, amt))
                         /\ KeepsRecords(ft_on_transfer(Self, c, u, amt,
                                [action |-> "deposit_collateral", target_account |-> ""]))
                         /\ KeepsRecords(withdraw_collateral(Self, u, c, amt, ""))
                         /\ \A o \in Users : KeepsRecords(redeem(Self, u, c, o, amt))
                         /\ KeepsOtherRecords(deposit_to_stability_pool(Self, u, amt), u)
                   /\ KeepsRecords(close_trove(Self, u, c))
                   /\ \A amt \in ClaimAmounts :
                         KeepsOtherRecords(withdraw_from_stability_pool(Self, u, amt), u)
             /\ \A owners \in OwnerLists :
                   KeepsRecords(liquidate(Self, OwnerId, c, owners))
             /\ \A a \in Accounts, amt \in ClaimAmounts :
                   KeepsOtherRecords(claim_collateral_reward(Self, a, c, amt), a))
    /\ [][\A a \in Accounts :
             Record(stability_pool_deposits', a) # Record(stability_pool_deposits, a)
             => \E amt \in Amounts : DepositToStabilityPool(a, amt)]_vars

\* an account holds shares that have a liquidation reward pending, in a pool
\* that was never drained, after a redemption has paid collateral to a user
C32_Witness ==
    \E a \in DOMAIN stability_pool_deposits, c \in Assets, u \in Users :
        /\ stability_pool_deposits[a].shares > 0
        /\ stability_pool_epoch = 0
        /\ MapGet(reward_per_share, c, 0)
              > MapGet(stability_pool_deposits[a].reward_debt, c, 0)
        /\ CollateralRewardKey(u, c) \in DOMAIN collateral_rewards
        /\ u # a
        /\ u \notin DOMAIN stability_pool_deposits

\* ---- the claimable ledger only grows
\* the stored ClaimableReward balance of the account for the asset
Claimable(rewards, a, c) == MapGet(rewards, CollateralRewardKey(a, c), 0)

\* C33: a step that lowers the stored ClaimableReward balance of (account,
\* asset) is a claim_collateral_reward of that account for that asset, and it
\* lowers it by the amount the call pays out; no call lowers the balance of
\* another account or of another asset.
C33_ClaimableNeverDecreases ==
    [][\A a \in Accounts, c \in Assets :
          Claimable(collateral_rewards', a, c) < Claimable(collateral_rewards, a, c)
          => /\ \E amt \in {None} \cup Amounts : ClaimCollateralReward(a, c, amt)
             /\ \A b \in Accounts \ {a} :
                   Claimable(collateral_rewards', b, c)
                      >= Claimable(collateral_rewards, b, c)]_vars

\* a user and the owner hold claimable collateral in a later epoch, after a
\* claim has been paid out: the contract holds less collateral than it does
\* in any initial state
C33_Witness ==
    \E a \in Users, c \in Assets :
        /\ Claimable(collateral_rewards, a, c) > 0
        /\ Claimable(collateral_rewards, OwnerId, c) > 0
        /\ stability_pool_epoch > 0
        /\ \A setup \in PoolSetups :
              custody[c] < setup.collateral.alice + setup.collateral.bob

\* ---- the epoch and the drained pool
\* C34: every step that takes stability_pool_total_nusd from a positive value
\* to zero increments stability_pool_epoch.
C34_DrainBumpsEpoch ==
    [][(stability_pool_total_nusd > 0 /\ stability_pool_total_nusd' = 0)
          => stability_pool_epoch' = stability_pool_epoch + 1]_vars

\* ---- total shares
\* C35: stability_pool_total_shares is the sum of the shares of the deposit
\* records whose epoch is the current stability_pool_epoch.
C35_TotalSharesIsSumOfCurrentRecords ==
    stability_pool_total_shares
       = SumOver([a \in DOMAIN stability_pool_deposits |->
                     IF stability_pool_deposits[a].epoch = stability_pool_epoch
                     THEN stability_pool_deposits[a].shares
                     ELSE 0],
                 DOMAIN stability_pool_deposits)

\* a record of an earlier epoch still carries shares while another account
\* holds all the shares of the current epoch
C35_Witness ==
    \E a \in DOMAIN stability_pool_deposits, b \in DOMAIN stability_pool_deposits :
        /\ stability_pool_deposits[a].epoch < stability_pool_epoch
        /\ stability_pool_deposits[a].shares > 0
        /\ stability_pool_deposits[b].epoch = stability_pool_epoch
        /\ stability_pool_deposits[b].shares > 0
        /\ stability_pool_total_shares = stability_pool_deposits[b].shares

\* C36: stability_pool_total_shares is 0 exactly when stability_pool_total_nusd
\* is 0, and is at least stability_pool_total_nusd; a deposit of a positive
\* amount that the caller holds goes through and mints at least one share;
\* and a liquidation that removes a trove starts from a pool with shares.
C36_SharesCoverPool ==
    /\ (stability_pool_total_shares = 0) <=> (stability_pool_total_nusd = 0)
    /\ stability_pool_total_shares >= stability_pool_total_nusd
    /\ \A u \in Users, amt \in Amounts :
          (u \in DOMAIN nusd.accounts /\ nusd.accounts[u] >= amt)
          => \A r \in { deposit_to_stability_pool(Self, u, amt) } :
                /\ ~r.panic
                /\ r.stability_pool_total_shares > stability_pool_total_shares
                /\ Record(r.stability_pool_deposits, u).shares > EffectiveShares(u)
    /\ \A c \in Assets, owners \in OwnerLists :
          \A r \in { liquidate(Self, OwnerId, c, owners) } :
             (~r.panic /\ r.ret > 0) => stability_pool_total_shares > 0

\* a pool below par: after a liquidation that left nUSD in it, a further
\* deposit has been priced in shares
C36_Witness ==
    /\ stability_pool_total_nusd > 0
    /\ stability_pool_total_shares > stability_pool_total_nusd + 1
    /\ \E a \in DOMAIN stability_pool_deposits, b \in DOMAIN stability_pool_deposits :
          /\ a # b
          /\ EffectiveShares(a) > 0
          /\ EffectiveShares(b) > 0

\* ---- stablecoin supply and debt
\* the stablecoin supply and the debt of all assets in a state
\* the call went through and changed the supply and the debt by delta
Shifts(r, delta) ==
    ~r.panic =>
       /\ r.nusd.total_supply = nusd.total_supply + delta
       /\ SumOver(r.total_debt, DOMAIN r.total_debt)
             = SumOver(total_debt, DOMAIN total_debt) + delta

\* the call went through, left the supply alone and moved the amount between
\* the two accounts
Moves(r, from, to, amount) ==
    ~r.panic =>
       /\ r.nusd.total_supply = nusd.total_supply
       /\ SumOver(r.total_debt, DOMAIN r.total_debt)
             = SumOver(total_debt, DOMAIN total_debt)
       /\ r.nusd.accounts[from] = nusd.accounts[from] - amount
       /\ r.nusd.accounts[to] = nusd.accounts[to] + amount

MaxSplits == 3

\* the most stablecoin the account obtains from state s by at most n
\* consecutive withdraw_from_stability_pool calls, whatever amounts it asks for
RECURSIVE MaxWithdrawn(_, _, _)
MaxWithdrawn(s, u, n) ==
    IF n = 0 THEN 0
    ELSE LET totals ==
                 { Bind(withdraw_from_stability_pool(s, u, amt), LAMBDA r :
                        IF r.panic THEN 0
                        ELSE (r.nusd.accounts[u] - s.nusd.accounts[u])
                                + MaxWithdrawn([r EXCEPT !.transfers = << >>], u, n - 1)) :
                   amt \in ClaimAmounts }
         IN CHOOSE m \in totals : \A x \in totals : x <= m

\* C38: what a depositor obtains by consecutive withdraw_from_stability_pool
\* calls, with no other operation in between, is at most its available
\* balance floor(shares * total_nusd / total_shares) before the first call.
C38_SplitWithdrawalGainsNothing ==
    \A u \in Users : MaxWithdrawn(Self, u, MaxSplits) <= Available(u)


\* ---- other accounts' pool balances
\* C39: a deposit_to_stability_pool or withdraw_from_stability_pool by one
\* account never reduces another account's pool balance: for every other
\* account, get_stability_pool_deposit after the call is at least what it was
\* before.
C39_PoolStepKeepsOthersBalance ==
    [][\A u \in Users :
          PoolStep(u) =>
             \A a \in Users \ {u} :
                get_stability_pool_deposit(a)' >= get_stability_pool_deposit(a)]_vars


\* ---- liquidation of every unsafe trove the pool covers
\* C40: every unsafe trove the pool can cover is liquidatable: whenever a
\* trove has debt > 0, a ratio below min_collateral_ratio_bps at the current
\* price and stability_pool_total_nusd >= its debt, liquidate([owner])
\* succeeds and removes it, whatever collateral amount the trove holds; no
\* arithmetic step of the liquidation aborts the call.
C40_UnsafeCoveredTroveIsLiquidated ==
    \A u \in Users, c \in Assets, caller \in Accounts :
        LET k == trove_key(u, c)
        IN (/\ k \in DOMAIN troves
            /\ c \in DOMAIN price_feeds
            /\ c \in DOMAIN configs
            /\ troves[k].debt_amount > 0
            /\ ~collateral_ratio_panics(troves[k].collateral_amount,
                                        troves[k].debt_amount, price_feeds[c])
            /\ collateral_ratio(troves[k].collateral_amount, troves[k].debt_amount,
                                price_feeds[c]) < configs[c].min_collateral_ratio_bps
            /\ stability_pool_total_nusd >= troves[k].debt_amount) =>
              \A r \in { liquidate(Self, caller, c, << u >>) } :
                 /\ ~r.panic
                 /\ k \notin DOMAIN r.troves

====
